---------------------------- MODULE Spec2Model ----------------------------
(***************************************************************************)
(* A model of the curve editor of mc_curve_generator: CurveModel (control  *)
(* points, selection, undo/redo history), the Canvas mouse handlers (add,  *)
(* split, delete, point and tangent drags) and the MainWindow key and menu *)
(* handlers (clear, mirror toggle, undo, redo, import, mode toggle).       *)
(*                                                                         *)
(* Floating-point coordinates (QPointF) are modelled in fixed point: every *)
(* grid coordinate is an integer number of 1/FP grid units, and a division *)
(* rounds to the nearest such number, symmetrically around zero (as IEEE   *)
(* rounding is symmetric under negation).                                  *)
(***************************************************************************)
EXTENDS Integers, Sequences, FiniteSets, TLC

VARIABLES
    control_points,           \* CurveModel.control_points: sequence of points
    selected_point_index,     \* CurveModel.selected_point_index: None or Some(0-based index)
    undo_stack,               \* CurveModel.undo_stack: sequence of snapshots
    redo_stack,               \* CurveModel.redo_stack: sequence of snapshots
    dragging_object,          \* Canvas.dragging_object: None or <<kind, index>>
    drag_start_in_tangent_abs,  \* Canvas.drag_start_in_tangent_abs
    drag_start_out_tangent_abs, \* Canvas.drag_start_out_tangent_abs
    is_locked,                \* Canvas.is_locked (build mode)
    curve_width,              \* Canvas.curve_width
    grid_args,                \* <<points, width>> that Canvas.grid_blocks was last computed from
    exc,                      \* exception raised by the last handler, or "none"
    left_button_down,         \* whether the left mouse button is held (the event source)
    obs                       \* history observer (not program state)

vars == <<control_points, selected_point_index, undo_stack, redo_stack,
          dragging_object, drag_start_in_tangent_abs,
          drag_start_out_tangent_abs, is_locked, curve_width, grid_args, exc,
          left_button_down, obs>>

\* Python's None; an optional integer i that is present is kept as <<i>>
None == <<>>

Some(i) == <<i>>

----------------------------------------------------------------------------
(* Bounds of the model. *)

\* most control points the editing actions may build up
MaxPoints == 3
\* most snapshots (undo_stack plus redo_stack) the editing actions may build up
MaxHistory == 3

\* the largest number of snapshots in the undo and redo stacks together where
\* runs of mutations are followed
MaxDeep == 4
\* longest tangent the editing actions may build up, in grid units per coordinate
MaxTangent == 40
\* longest run of consecutive mutations the observer remembers
MaxRun == 2
\* most snapshots pushed in the capacity specification
MaxPushes == 53

(* Program constants. *)

\* Canvas.zoom
zoom == 10
\* fixed-point resolution, units per grid unit: a unit is one screen pixel
FP == zoom
\* Canvas.handle_radius
handle_radius == 6
\* Canvas.curve_width after construction
DefaultCurveWidth == 3
\* capacity of undo_stack
UndoCap == 50
\* minimum number of sampling steps of a segment
MinSteps == 20
\* default tangent length of a new ControlPoint, in grid units
DefaultTangent == 20
\* Canvas.view_offset (both coordinates), in grid units
ViewOffset == 500
\* Canvas.show_tangents
show_tangents == TRUE

----------------------------------------------------------------------------
(* Arithmetic. *)

Abs(a) == IF a < 0 THEN -a ELSE a

Min(a, b) == IF a < b THEN a ELSE b

Max(a, b) == IF a > b THEN a ELSE b

\* a / b for b > 0, rounded to the nearest integer, halves away from zero
RoundDiv(a, b) ==
    IF a >= 0 THEN (a + b \div 2) \div b
    ELSE -(((-a) + b \div 2) \div b)

RECURSIVE SqrtIter(_, _, _)
SqrtIter(n, lo, hi) ==
    IF lo >= hi THEN lo
    ELSE LET mid == (lo + hi + 1) \div 2
         IN  IF mid * mid <= n THEN SqrtIter(n, mid, hi)
             ELSE SqrtIter(n, lo, mid - 1)

\* floor of the square root
ISqrt(n) == SqrtIter(n, 0, Min(n, 46340))

(* QPointF arithmetic, on pairs <<x, y>>. *)

VAdd(a, b) == <<a[1] + b[1], a[2] + b[2]>>

VSub(a, b) == <<a[1] - b[1], a[2] - b[2]>>

VNeg(a) == <<-a[1], -a[2]>>

\* a * (num / den)
VScale(a, num, den) == <<RoundDiv(a[1] * num, den), RoundDiv(a[2] * num, den)>>

ManhattanLength(a) == Abs(a[1]) + Abs(a[2])

Length2(a, b) == (a[1] - b[1]) * (a[1] - b[1]) + (a[2] - b[2]) * (a[2] - b[2])

\* QLineF(a, b).length()
Length(a, b) == ISqrt(Length2(a, b))

----------------------------------------------------------------------------
(* ControlPoint. *)

\* ControlPoint.__init__
ControlPoint(pos) ==
    [pos         |-> pos,
     in_tangent  |-> <<-(DefaultTangent * FP), 0>>,
     out_tangent |-> <<DefaultTangent * FP, 0>>,
     mirrored    |-> TRUE]

\* ControlPoint.clone
clone(pt) ==
    [ControlPoint(pt.pos) EXCEPT !.in_tangent  = pt.in_tangent,
                                 !.out_tangent = pt.out_tangent,
                                 !.mirrored    = pt.mirrored]

\* [pt.clone() for pt in points]
CloneAll(points) == [i \in 1..Len(points) |-> clone(points[i])]

Front(seq) == SubSeq(seq, 1, Len(seq) - 1)

Last(seq) == seq[Len(seq)]

\* list.insert(at, x), at 0-based
InsertAt(seq, at, x) == SubSeq(seq, 1, at) \o <<x>> \o SubSeq(seq, at + 1, Len(seq))

\* del list[at], at 0-based
DeleteAt(seq, at) == SubSeq(seq, 1, at) \o SubSeq(seq, at + 2, Len(seq))

----------------------------------------------------------------------------
(* CurveModel.  The operations are functions of the program state s, a     *)
(* record of the program variables.                                        *)

\* a capacity check that drops the newest snapshot instead of the oldest
EvictNewest(stack) == IF Len(stack) > UndoCap THEN Front(stack) ELSE stack

\* the snapshot list after the capacity check of _save_state_for_undo
EvictOldest(stack) == IF Len(stack) > UndoCap THEN Tail(stack) ELSE stack

\* what _save_state_for_undo leaves on redo_stack
RedoAfterSave(redo) == <<>>

\* CurveModel._save_state_for_undo
save_state_for_undo(s) ==
    [s EXCEPT !.undo_stack = EvictOldest(Append(s.undo_stack, CloneAll(s.control_points))),
              !.redo_stack = RedoAfterSave(s.redo_stack)]

\* a restore that keeps the selection
restore_keeping_selection(s, state) ==
    [s EXCEPT !.control_points = CloneAll(state)]

\* CurveModel._restore_state
restore_state(s, state) ==
    [s EXCEPT !.control_points = CloneAll(state),
              !.selected_point_index = None]

\* a guard of undo that lets the last snapshot be popped
CanUndoLast(stack) == Len(stack) > 0

\* the guard of CurveModel.undo
CanUndo(stack) == Len(stack) > 1

\* CurveModel.undo (undo_stack[-1] of an empty list raises IndexError)
undo(s) ==
    IF CanUndo(s.undo_stack)
    THEN LET popped == [s EXCEPT !.undo_stack = Front(s.undo_stack),
                                 !.redo_stack = Append(s.redo_stack, Last(s.undo_stack))]
         IN  IF Len(popped.undo_stack) = 0
             THEN [popped EXCEPT !.exc = "IndexError"]
             ELSE restore_state(popped, Last(popped.undo_stack))
    ELSE s

\* the body of CurveModel.redo under its guard
redo_pop(s) ==
    LET state == Last(s.redo_stack)
    IN  restore_state([s EXCEPT !.redo_stack = Front(s.redo_stack),
                                !.undo_stack = Append(s.undo_stack, state)],
                      state)

\* a redo without the guard: list.pop() of an empty list raises IndexError
redo_unguarded(s) ==
    IF Len(s.redo_stack) > 0 THEN redo_pop(s) ELSE [s EXCEPT !.exc = "IndexError"]

\* CurveModel.redo
redo(s) ==
    IF Len(s.redo_stack) > 0 THEN redo_pop(s) ELSE s

\* CurveModel.clear_points
model_clear_points(s) ==
    save_state_for_undo([s EXCEPT !.control_points = <<>>,
                                  !.selected_point_index = None])

\* CurveModel._cubic_bezier at t = j / steps: the Bernstein form, the weights
\* taken over steps^3 and the sum relative to p0 (the weights sum to 1)
cubic_bezier(p0, p1, p2, p3, j, steps) ==
    LET u  == steps - j
        w1 == 3 * u * u * j
        w2 == 3 * u * j * j
        w3 == j * j * j
        d  == steps * steps * steps
    IN  <<p0[1] + RoundDiv(w1 * (p1[1] - p0[1]) + w2 * (p2[1] - p0[1])
                           + w3 * (p3[1] - p0[1]), d),
          p0[2] + RoundDiv(w1 * (p1[2] - p0[2]) + w2 * (p2[2] - p0[2])
                           + w3 * (p3[2] - p0[2]), d)>>

\* half the length of the control polygon, with no least step count
steps_unclamped(p0, p1, p2, p3) ==
    (Length(p0, p1) + Length(p1, p2) + Length(p2, p3)) \div (2 * FP)

\* CurveModel._adaptive_steps
adaptive_steps(p0, p1, p2, p3) ==
    LET length == Length(p0, p1) + Length(p1, p2) + Length(p2, p3)
    IN  Max(MinSteps, length \div (2 * FP))

----------------------------------------------------------------------------
(* Canvas: view transforms.  Screen coordinates are kept in units of       *)
(* 1/PX pixel, so that a grid coordinate and its screen coordinate have    *)
(* the same resolution.                                                    *)

\* screen units per pixel
PX == FP \div zoom

\* a QPoint of the event, in pixels, as a screen coordinate
EventPos(px) == <<px[1] * PX, px[2] * PX>>

\* a grid vector scaled by zoom, as a screen vector
TimesZoom(v) == <<(v[1] * zoom * PX) \div FP, (v[2] * zoom * PX) \div FP>>

\* a screen vector scaled by 1 / zoom, as a grid vector
OverZoom(v) == <<(v[1] * FP) \div (zoom * PX), (v[2] * FP) \div (zoom * PX)>>

\* Canvas.screen_to_grid
screen_to_grid(screen_pos) ==
    VAdd(OverZoom(screen_pos), <<ViewOffset * FP, ViewOffset * FP>>)

\* Canvas.grid_to_screen
grid_to_screen(grid_pos) ==
    TimesZoom(VSub(grid_pos, <<ViewOffset * FP, ViewOffset * FP>>))

\* a length of n pixels, in screen units
Pixels(n) == n * PX

----------------------------------------------------------------------------
(* Canvas: hit tests of mousePressEvent. *)

\* what a left press at screen position pos hits on point pt:
\* its in-handle, its out-handle, the point itself, or nothing
HitKind(pt, pos) ==
    LET screen_center  == grid_to_screen(pt.pos)
        in_handle_pos  == VAdd(screen_center, TimesZoom(pt.in_tangent))
        out_handle_pos == VAdd(screen_center, TimesZoom(pt.out_tangent))
    IN  IF show_tangents
           /\ ManhattanLength(VSub(in_handle_pos, pos)) < Pixels(handle_radius * 2)
        THEN "in_handle"
        ELSE IF show_tangents
                /\ ManhattanLength(VSub(out_handle_pos, pos)) < Pixels(handle_radius * 2)
        THEN "out_handle"
        ELSE IF ManhattanLength(VSub(screen_center, pos)) < Pixels(handle_radius * 2)
        THEN "point"
        ELSE "none"

\* the 0-based indices of the points a left press at pos hits
HitIndices(points, pos) ==
    {i \in 0..(Len(points) - 1) : HitKind(points[i + 1], pos) # "none"}

\* the largest element of a non-empty set of integers
SetMax(S) == CHOOSE x \in S : \A y \in S : y <= x

\* the smallest element of a non-empty set of integers
SetMin(S) == CHOOSE x \in S : \A y \in S : x <= y

----------------------------------------------------------------------------
(* Canvas._find_closest_segment.  The result is <<dist2, segment, j, steps>>*)
(* with t = j / steps, dist2 the squared screen distance and segment       *)
(* Some(index); with fewer than two points the segment is None.            *)

Infinity == "inf"

\* the absolute control points of segment i (0-based) and its step count
SegmentGeometry(points, i) ==
    LET p0     == points[i + 1]
        p3     == points[i + 2]
        p1_abs == VAdd(p0.pos, p0.out_tangent)
        p2_abs == VAdd(p3.pos, p3.in_tangent)
    IN  [p0 |-> p0.pos, p1 |-> p1_abs, p2 |-> p2_abs, p3 |-> p3.pos,
         steps |-> adaptive_steps(p0.pos, p1_abs, p2_abs, p3.pos)]

\* squared screen distance of sample j of segment geometry g to pos
SampleDist2(g, j, pos) ==
    Length2(grid_to_screen(cubic_bezier(g.p0, g.p1, g.p2, g.p3, j, g.steps)), pos)

\* the first sample of least distance within one segment
ClosestInSegment(points, i, pos) ==
    LET g  == SegmentGeometry(points, i)
        d2 == [j \in 0..g.steps |-> SampleDist2(g, j, pos)]
        m  == SetMin({d2[j] : j \in 0..g.steps})
    IN  <<m, Some(i), SetMin({j \in 0..g.steps : d2[j] = m}), g.steps>>

\* a loop that keeps the last segment with a sample of least distance
find_last_closest_segment(points, pos) ==
    IF Len(points) < 2
    THEN <<Infinity, None, None, None>>
    ELSE LET best == [i \in 0..(Len(points) - 2) |-> ClosestInSegment(points, i, pos)]
             m    == SetMin({best[i][1] : i \in 0..(Len(points) - 2)})
         IN  best[SetMax({i \in 0..(Len(points) - 2) : best[i][1] = m})]

\* the loop keeps the first sample that is strictly closer than all before
find_closest_segment(points, pos) ==
    IF Len(points) < 2
    THEN <<Infinity, None, None, None>>
    ELSE LET best == [i \in 0..(Len(points) - 2) |-> ClosestInSegment(points, i, pos)]
             m    == SetMin({best[i][1] : i \in 0..(Len(points) - 2)})
         IN  best[SetMin({i \in 0..(Len(points) - 2) : best[i][1] = m})]

----------------------------------------------------------------------------
(* Canvas: rasterization.  grid_blocks is a function of the control points *)
(* and the width update_grid_with_curve was last called with; the state    *)
(* keeps those arguments, and grid_blocks is computed from them.           *)

\* math.floor(a / FP) and math.ceil(a / FP) of a fixed-point number a
Floor(a) == a \div FP

\* rounding a coordinate towards zero where the code rounds up
Truncated(a) == IF a >= 0 THEN a \div FP ELSE -((-a) \div FP)

Ceil(a) == -((-a) \div FP)

\* whether the centre (x + 0.5, y + 0.5) of a cell is within width / 2 of pt;
\* both sides of the comparison are doubled and squared
CentreInDisc(pt, width, x, y) ==
    LET dx == 2 * pt[1] - (2 * x + 1) * FP
        dy == 2 * pt[2] - (2 * y + 1) * FP
    IN  dx * dx + dy * dy <= (width * FP) * (width * FP)

\* the cells one sample adds: the loops over the bounding box and the test
\* (width * FP is even, so the radius is a fixed-point number)
Stamp(pt, width) ==
    LET radius == (width * FP) \div 2
        min_x  == Floor(pt[1] - radius)
        max_x  == Ceil(pt[1] + radius)
        min_y  == Floor(pt[2] - radius)
        max_y  == Ceil(pt[2] + radius)
    IN  {c \in (min_x..(max_x - 1)) \X (min_y..(max_y - 1)) :
            CentreInDisc(pt, width, c[1], c[2])}

\* sample t_step of segment i (0-based) of the curve
Sample(points, i, t_step) ==
    LET g == SegmentGeometry(points, i)
    IN  cubic_bezier(g.p0, g.p1, g.p2, g.p3, t_step, g.steps)

\* the cells of Canvas.update_grid_with_curve for the points and the width
Rasterize(points, width) ==
    IF Len(points) < 2 THEN {}
    ELSE UNION {UNION {Stamp(Sample(points, i, t_step), width) :
                          t_step \in 0..SegmentGeometry(points, i).steps} :
                   i \in 0..(Len(points) - 2)}

\* Canvas.update_grid_with_curve
update_grid_with_curve(s) ==
    [s EXCEPT !.grid_args = <<s.control_points, s.curve_width>>]

\* Canvas.grid_blocks
grid_blocks == Rasterize(grid_args[1], grid_args[2])

----------------------------------------------------------------------------
(* Canvas: editing operations. *)

\* the tangent of a split point: deriv * chord * (num / den) * 0.5, where
\* deriv is normalized to unit length when its length exceeds 0.001
SplitTangent(deriv, chord, num, den) ==
    LET length == ISqrt(deriv[1] * deriv[1] + deriv[2] * deriv[2])
        along  == IF length * 1000 > FP
                  THEN <<RoundDiv(deriv[1] * chord, length),
                         RoundDiv(deriv[2] * chord, length)>>
                  ELSE <<RoundDiv(deriv[1] * chord, FP),
                         RoundDiv(deriv[2] * chord, FP)>>
    IN  VScale(along, num, 2 * den)

\* a shrinking that scales both tangents by t
ShrinkEndsBothByT(points, segment_idx, j, steps) ==
    [points EXCEPT
        ![segment_idx + 1].out_tangent = VScale(points[segment_idx + 1].out_tangent, j, steps),
        ![segment_idx + 2].in_tangent  = VScale(points[segment_idx + 2].in_tangent, j, steps)]

\* p0.out_tangent *= t and p1.in_tangent *= u of _split_curve_segment
ShrinkEnds(points, segment_idx, j, steps) ==
    [points EXCEPT
        ![segment_idx + 1].out_tangent = VScale(points[segment_idx + 1].out_tangent, j, steps),
        ![segment_idx + 2].in_tangent  = VScale(points[segment_idx + 2].in_tangent,
                                                steps - j, steps)]

\* a split that puts the new point on the middle of the chord
split_at_chord_middle(s, segment_idx, j, steps) ==
    LET points == s.control_points
        p0     == points[segment_idx + 1]
        p1     == points[segment_idx + 2]
        new_cp == ControlPoint(VAdd(p0.pos, VScale(VSub(p1.pos, p0.pos), 1, 2)))
    IN  [s EXCEPT !.control_points =
                      InsertAt(ShrinkEnds(points, segment_idx, j, steps),
                               segment_idx + 1, new_cp),
                  !.selected_point_index = Some(segment_idx + 1)]

\* Canvas._split_curve_segment at t = j / steps
split_curve_segment(s, segment_idx, j, steps) ==
    IF s.is_locked THEN s
    ELSE
    LET points == s.control_points
        p0     == points[segment_idx + 1]
        p1     == points[segment_idx + 2]
        p0_abs == p0.pos
        p3_abs == p1.pos
        p1_abs == VAdd(p0_abs, p0.out_tangent)
        p2_abs == VAdd(p3_abs, p1.in_tangent)
        new_pos == cubic_bezier(p0_abs, p1_abs, p2_abs, p3_abs, j, steps)
        u      == steps - j
        d1     == VSub(p1_abs, p0_abs)
        d2     == VSub(p2_abs, p1_abs)
        d3     == VSub(p3_abs, p2_abs)
        deriv  == <<RoundDiv(3 * u * u * d1[1] + 6 * u * j * d2[1] + 3 * j * j * d3[1],
                             steps * steps),
                    RoundDiv(3 * u * u * d1[2] + 6 * u * j * d2[2] + 3 * j * j * d3[2],
                             steps * steps)>>
        chord  == Length(p0.pos, p1.pos)
        new_cp == [ControlPoint(new_pos) EXCEPT
                       !.out_tangent = SplitTangent(deriv, chord, j, steps),
                       !.in_tangent  = VNeg(SplitTangent(deriv, chord, u, steps))]
        shrunk == ShrinkEnds(points, segment_idx, j, steps)
    IN  [s EXCEPT !.control_points = InsertAt(shrunk, segment_idx + 1, new_cp),
                  !.selected_point_index = Some(segment_idx + 1)]

\* an _add_point that prepends on a tie of the two distances
add_point_tie_first(s, screen_pos) ==
    IF s.is_locked THEN s
    ELSE
    LET grid_pos == screen_to_grid(screen_pos)
        new_cp   == ControlPoint(grid_pos)
        points   == s.control_points
    IN  IF Len(points) = 0
        THEN [s EXCEPT !.control_points = <<new_cp>>,
                       !.selected_point_index = Some(0)]
        ELSE IF Length2(grid_pos, points[1].pos) <= Length2(grid_pos, Last(points).pos)
        THEN [s EXCEPT !.control_points = InsertAt(points, 0, new_cp),
                       !.selected_point_index = Some(0)]
        ELSE [s EXCEPT !.control_points = Append(points, new_cp),
                       !.selected_point_index = Some(Len(points))]

\* Canvas._add_point
add_point(s, screen_pos) ==
    IF s.is_locked THEN s
    ELSE
    LET grid_pos == screen_to_grid(screen_pos)
        new_cp   == ControlPoint(grid_pos)
        points   == s.control_points
    IN  IF Len(points) = 0
        THEN [s EXCEPT !.control_points = <<new_cp>>,
                       !.selected_point_index = Some(0)]
        ELSE IF Length2(grid_pos, points[1].pos) < Length2(grid_pos, Last(points).pos)
        THEN [s EXCEPT !.control_points = InsertAt(points, 0, new_cp),
                       !.selected_point_index = Some(0)]
        ELSE [s EXCEPT !.control_points = Append(points, new_cp),
                       !.selected_point_index = Some(Len(points))]

\* the 0-based indices of the points within the pick radius of screen_pos
DeleteHits(points, screen_pos) ==
    {i \in 0..(Len(points) - 1) :
        Length2(grid_to_screen(points[i + 1].pos), screen_pos)
            < Pixels(handle_radius * 2) * Pixels(handle_radius * 2)}

\* a _delete_point_at that scans from the first point on
delete_first_point_at(s, screen_pos) ==
    IF s.is_locked THEN s
    ELSE LET hits == DeleteHits(s.control_points, screen_pos)
         IN  IF hits = {} THEN s
             ELSE save_state_for_undo(update_grid_with_curve(
                      [s EXCEPT !.control_points = DeleteAt(s.control_points, SetMin(hits)),
                                !.selected_point_index = None]))

\* Canvas._delete_point_at
delete_point_at(s, screen_pos) ==
    IF s.is_locked THEN s
    ELSE LET hits == DeleteHits(s.control_points, screen_pos)
         IN  IF hits = {} THEN s
             ELSE save_state_for_undo(update_grid_with_curve(
                      [s EXCEPT !.control_points = DeleteAt(s.control_points, SetMax(hits)),
                                !.selected_point_index = None]))

\* Canvas._start_drag
start_drag(s, point_index) ==
    IF s.is_locked THEN s
    ELSE LET point == s.control_points[point_index + 1]
         IN  save_state_for_undo(
                 [s EXCEPT !.selected_point_index = Some(point_index),
                           !.drag_start_in_tangent_abs  = VAdd(point.pos, point.in_tangent),
                           !.drag_start_out_tangent_abs = VAdd(point.pos, point.out_tangent)])

\* whether the closest sample is within the click-on-curve threshold,
\* curve_width * zoom / 2 + 5 pixels
OnCurve(closest) ==
    /\ closest[2] # None
    /\ 4 * closest[1] < Pixels(curve_width * zoom + 10) * Pixels(curve_width * zoom + 10)

\* what a left press at pos does: "highlight" (locked), "drag", "split" or "add"
PressKind(s, pos) ==
    IF s.is_locked THEN "highlight"
    ELSE IF HitIndices(s.control_points, pos) # {} THEN "drag"
    ELSE IF OnCurve(find_closest_segment(s.control_points, pos)) THEN "split"
    ELSE "add"

\* Canvas.mousePressEvent, left button
mousePressLeft(s0, pos) ==
    LET s    == [s0 EXCEPT !.exc = "none"]
        kind == PressKind(s, pos)
    IN  CASE kind = "highlight" -> s
          [] kind = "drag" ->
                LET i == SetMax(HitIndices(s.control_points, pos))
                IN  start_drag([s EXCEPT !.dragging_object =
                                    <<HitKind(s.control_points[i + 1], pos), i>>], i)
          [] kind = "split" ->
                LET c == find_closest_segment(s.control_points, pos)
                IN  save_state_for_undo(update_grid_with_curve(
                        split_curve_segment(s, c[2][1], c[3], c[4])))
          [] kind = "add" ->
                save_state_for_undo(update_grid_with_curve(add_point(s, pos)))

\* Canvas.mousePressEvent, middle button
mousePressMiddle(s0, pos) ==
    LET s == [s0 EXCEPT !.exc = "none"]
    IN  IF s.is_locked THEN s ELSE delete_point_at(s, pos)

\* bool() of a drag anchor: None is false, and so is a QPointF whose
\* isNull() holds, the point (0, 0)
Truthy(anchor) == anchor # None /\ anchor # <<0, 0>>

\* a drag move that sets the dragged tangent and leaves the other alone
DraggedPointUnmirrored(s, pt, drag_type, pos, shift_pressed) ==
    LET grid_pos    == screen_to_grid(pos)
        tangent_vec == OverZoom(VSub(pos, grid_to_screen(pt.pos)))
    IN  IF drag_type = "point" THEN [pt EXCEPT !.pos = grid_pos]
        ELSE IF drag_type = "in_handle" THEN [pt EXCEPT !.in_tangent = tangent_vec]
        ELSE [pt EXCEPT !.out_tangent = tangent_vec]

\* a drag move that mirrors the dragged tangent whatever the flag says
DraggedPointAlwaysMirrored(s, pt, drag_type, pos, shift_pressed) ==
    LET grid_pos    == screen_to_grid(pos)
        tangent_vec == OverZoom(VSub(pos, grid_to_screen(pt.pos)))
    IN  IF drag_type = "point"
        THEN IF shift_pressed /\ Truthy(s.drag_start_in_tangent_abs)
                /\ Truthy(s.drag_start_out_tangent_abs)
             THEN [pt EXCEPT !.pos = grid_pos,
                             !.in_tangent  = VSub(s.drag_start_in_tangent_abs, grid_pos),
                             !.out_tangent = VSub(s.drag_start_out_tangent_abs, grid_pos)]
             ELSE [pt EXCEPT !.pos = grid_pos]
        ELSE IF drag_type = "in_handle"
        THEN [pt EXCEPT !.in_tangent = tangent_vec, !.out_tangent = VNeg(tangent_vec)]
        ELSE [pt EXCEPT !.out_tangent = tangent_vec, !.in_tangent = VNeg(tangent_vec)]

\* the point a drag move leaves at the dragged index
DraggedPoint(s, pt, drag_type, pos, shift_pressed) ==
    LET grid_pos == screen_to_grid(pos)
    IN  IF drag_type = "point"
        THEN IF shift_pressed /\ Truthy(s.drag_start_in_tangent_abs)
                /\ Truthy(s.drag_start_out_tangent_abs)
             THEN [pt EXCEPT !.pos = grid_pos,
                             !.in_tangent  = VSub(s.drag_start_in_tangent_abs, grid_pos),
                             !.out_tangent = VSub(s.drag_start_out_tangent_abs, grid_pos)]
             ELSE [pt EXCEPT !.pos = grid_pos]
        ELSE LET screen_center == grid_to_screen(pt.pos)
                 tangent_vec   == OverZoom(VSub(pos, screen_center))
             IN  IF drag_type = "in_handle"
                 THEN [pt EXCEPT !.in_tangent  = tangent_vec,
                                 !.out_tangent = IF pt.mirrored THEN VNeg(tangent_vec)
                                                 ELSE pt.out_tangent]
                 ELSE [pt EXCEPT !.out_tangent = tangent_vec,
                                 !.in_tangent  = IF pt.mirrored THEN VNeg(tangent_vec)
                                                 ELSE pt.in_tangent]

\* Canvas.mouseMoveEvent (control_points[index] past the end raises IndexError)
mouseMoveEvent(s0, pos, shift_pressed) ==
    LET s == [s0 EXCEPT !.exc = "none"]
    IN  IF s.is_locked \/ s.dragging_object = None THEN s
        ELSE LET drag_type == s.dragging_object[1]
                 index     == s.dragging_object[2]
             IN  IF index >= Len(s.control_points)
                 THEN [s EXCEPT !.exc = "IndexError"]
                 ELSE update_grid_with_curve(
                          [s EXCEPT !.control_points[index + 1] =
                               DraggedPoint(s, s.control_points[index + 1], drag_type,
                                            pos, shift_pressed)])

\* Canvas.mouseReleaseEvent, left button
mouseReleaseLeft(s0) ==
    LET s == [s0 EXCEPT !.exc = "none"]
    IN  IF s.is_locked THEN s ELSE [s EXCEPT !.dragging_object = None]

----------------------------------------------------------------------------
(* file_operations.import_track.  A document is what the open-file dialog  *)
(* and the file deliver: whether a path was chosen, whether the file can   *)
(* be opened and parsed, and the entries of the file's control_points      *)
(* list; an entry with a missing or wrongly typed field has                *)
(* wellformed = FALSE and raises when it is read.                          *)

\* an entry of a document's control_points list
Entry(pos, in_tangent, out_tangent, mirrored, wellformed) ==
    [pos |-> pos, in_tangent |-> in_tangent, out_tangent |-> out_tangent,
     mirrored |-> mirrored, wellformed |-> wellformed]

\* the ControlPoint built from an entry
EntryPoint(e) ==
    [ControlPoint(e.pos) EXCEPT !.in_tangent  = e.in_tangent,
                                !.out_tangent = e.out_tangent,
                                !.mirrored    = e.mirrored]

\* a reader that keeps the entries read before the one that raises
read_track_prefix(doc) ==
    IF ~doc.path_chosen \/ ~doc.readable THEN <<>>
    ELSE LET bad == {i \in 1..Len(doc.entries) : ~doc.entries[i].wellformed}
             n   == IF bad = {} THEN Len(doc.entries)
                    ELSE (CHOOSE i \in bad : \A k \in bad : i <= k) - 1
         IN  [i \in 1..n |-> EntryPoint(doc.entries[i])]

\* file_operations.import_track: the list of points, or the empty list when
\* the dialog is cancelled or reading raises
read_track(doc) ==
    IF ~doc.path_chosen THEN <<>>
    ELSE IF ~doc.readable THEN <<>>
    ELSE IF \E i \in 1..Len(doc.entries) : ~doc.entries[i].wellformed THEN <<>>
    ELSE [i \in 1..Len(doc.entries) |-> EntryPoint(doc.entries[i])]

----------------------------------------------------------------------------
(* MainWindow. *)

\* MainWindow.clear_points
clear_points(s) ==
    IF s.is_locked THEN s ELSE update_grid_with_curve(model_clear_points(s))

\* MainWindow._toggle_mirror (control_points[index] past the end raises IndexError)
toggle_mirror(s) ==
    IF s.is_locked \/ s.selected_point_index = None THEN s
    ELSE LET index == s.selected_point_index[1]
         IN  IF index >= Len(s.control_points)
             THEN [s EXCEPT !.exc = "IndexError"]
             ELSE save_state_for_undo(
                      [s EXCEPT !.control_points[index + 1].mirrored =
                                    ~s.control_points[index + 1].mirrored])

\* a return from undo() or redo() with no update of the grid
NotRedrawn(r) == r

\* update_grid_with_curve after a call that returned; a call that raised
\* ends the handler
Redrawn(r) == IF r.exc # "none" THEN r ELSE update_grid_with_curve(r)

\* MainWindow.keyPressEvent for the keys C, M, Undo and Redo
keyPressEvent(s0, key) ==
    LET s == [s0 EXCEPT !.exc = "none"]
    IN  IF s.is_locked THEN s
        ELSE CASE key = "C" -> clear_points(s)
               [] key = "M" -> IF s.selected_point_index # None THEN toggle_mirror(s) ELSE s
               [] key = "Undo" -> Redrawn(undo(s))
               [] key = "Redo" -> Redrawn(redo(s))

\* MainWindow.import_track
import_track(s0, doc) ==
    LET s == [s0 EXCEPT !.exc = "none"]
    IN  IF s.is_locked THEN s
        ELSE LET imported_points == read_track(doc)
             IN  IF Len(imported_points) > 0
                 THEN update_grid_with_curve(save_state_for_undo(
                          [s EXCEPT !.control_points = imported_points]))
                 ELSE s

\* a slider handler that sets the width in either mode
set_curve_width_unguarded(s0, value) ==
    update_grid_with_curve([s0 EXCEPT !.exc = "none", !.curve_width = value])

\* MainWindow.set_curve_width
set_curve_width(s0, value) ==
    LET s == [s0 EXCEPT !.exc = "none"]
    IN  IF s.is_locked THEN s
        ELSE update_grid_with_curve([s EXCEPT !.curve_width = value])

\* MainWindow.toggle_mode
toggle_mode(s0, is_build_mode) ==
    [s0 EXCEPT !.exc = "none", !.is_locked = is_build_mode]

----------------------------------------------------------------------------
(* Inputs. *)

\* mouse positions of the press events, in pixels: two places for end points
\* 40 grid units apart, a place on the curve between them, and the place
\* where the out-handle of the first and the in-handle of the second lie
MousePositions == {<<100, 100>>, <<500, 100>>, <<200, 100>>, <<300, 100>>}

\* mouse positions of the move events, in pixels: a place off the line of the
\* press positions
MovePositions == {<<200, 200>>}

\* the dialog was cancelled
DocCancelled == [path_chosen |-> FALSE, readable |-> TRUE, entries |-> <<>>]

\* a file whose control_points list is empty
DocEmpty == [path_chosen |-> TRUE, readable |-> TRUE, entries |-> <<>>]

\* a file that cannot be opened, or is not JSON, or has no control_points
DocUnreadable == [path_chosen |-> TRUE, readable |-> FALSE, entries |-> <<>>]

\* an entry for a mirrored point whose handles are of unequal length
LopsidedEntry(x, wellformed) ==
    Entry(<<x * FP, 510 * FP>>, <<-(10 * FP), 0>>, <<30 * FP, 0>>, TRUE, wellformed)

\* a file with one point
DocOne == [path_chosen |-> TRUE, readable |-> TRUE, entries |-> <<LopsidedEntry(520, TRUE)>>]

\* a file with two points, with the handles a new point has
DocTwo ==
    [path_chosen |-> TRUE, readable |-> TRUE,
     entries |-> <<Entry(<<510 * FP, 510 * FP>>, <<-(20 * FP), 0>>, <<20 * FP, 0>>,
                         TRUE, TRUE),
                   Entry(<<550 * FP, 510 * FP>>, <<-(20 * FP), 0>>, <<20 * FP, 0>>,
                         TRUE, TRUE)>>]

\* a file whose second entry lacks a field
DocBad ==
    [path_chosen |-> TRUE, readable |-> TRUE,
     entries |-> <<LopsidedEntry(520, TRUE), LopsidedEntry(530, FALSE)>>]

\* a file with two points at one place, the second not mirrored
DocTwin ==
    [path_chosen |-> TRUE, readable |-> TRUE,
     entries |-> <<Entry(<<510 * FP, 510 * FP>>, <<-(20 * FP), 0>>, <<20 * FP, 0>>,
                         TRUE, TRUE),
                   Entry(<<510 * FP, 510 * FP>>, <<-(20 * FP), 0>>, <<20 * FP, 0>>,
                         FALSE, TRUE)>>]

ImportDocs == {DocCancelled, DocEmpty, DocOne, DocTwo, DocBad}

----------------------------------------------------------------------------
(* The program state as a record, and the history observer.                *)

cur ==
    [control_points |-> control_points,
     selected_point_index |-> selected_point_index,
     undo_stack |-> undo_stack,
     redo_stack |-> redo_stack,
     dragging_object |-> dragging_object,
     drag_start_in_tangent_abs |-> drag_start_in_tangent_abs,
     drag_start_out_tangent_abs |-> drag_start_out_tangent_abs,
     is_locked |-> is_locked,
     curve_width |-> curve_width,
     grid_args |-> grid_args,
     exc |-> exc]

\* the state after CurveModel.__init__ and Canvas.__init__
Constructed ==
    save_state_for_undo(
        [control_points |-> <<>>,
         selected_point_index |-> None,
         undo_stack |-> <<>>,
         redo_stack |-> <<>>,
         dragging_object |-> None,
         drag_start_in_tangent_abs |-> None,
         drag_start_out_tangent_abs |-> None,
         is_locked |-> FALSE,
         curve_width |-> DefaultCurveWidth,
         grid_args |-> <<<<>>, DefaultCurveWidth>>,
         exc |-> "none"])

(* The observer records, for the claims about histories:                   *)
(*   op      the last handler that changed the state, and what it did      *)
(*   run     the control points before each of the latest consecutive      *)
(*           committed mutations (at most MaxRun of them)                  *)
(*   undos   the number of undo() calls that followed that run directly    *)
(*   mark    <<control points before the latest of those undo() calls>>    *)
(*   redone  whether a single undo() was followed directly by redo()       *)
(*   pend    <<control points at the press that started the drag under     *)
(*           way>>                                                         *)
(*   log     the snapshots pushed one after another with no undo or redo   *)
(*           between them                                                  *)
(* A specification keeps op alone (h = "op"), op and the runs of mutations *)
(* (h = "runs"), or op and the log (h = "log").                            *)

ObsReset(op) ==
    [op |-> op, run |-> <<>>, undos |-> 0, mark |-> <<>>, redone |-> FALSE,
     pend |-> <<>>, log |-> <<>>]

\* the handlers that push a snapshot
PushOps == {"add", "split", "drag", "delete", "clear", "mirror", "import"}

\* the last MaxRun elements of a sequence
Latest(seq) ==
    IF Len(seq) > MaxRun THEN SubSeq(seq, Len(seq) - MaxRun + 1, Len(seq)) ELSE seq

\* the observer o with the log brought up to date for the handler's result new
Logged(h, o, new) ==
    IF h # "log" THEN o
    ELSE [o EXCEPT !.log = IF o.op \in PushOps
                           THEN Append(obs.log, CloneAll(new.control_points))
                           ELSE IF o.op \in {"undo", "redo"} THEN <<>>
                           ELSE obs.log]

\* a committed mutation that started from the control points pre has completed
ObsMutation(h, op, pre) ==
    IF h # "runs" \/ (obs.pend # <<>> /\ op # "release")
    THEN ObsReset(op)
    ELSE [ObsReset(op) EXCEPT
              !.run = IF obs.undos > 0 \/ obs.redone THEN <<pre>>
                      ELSE Latest(Append(obs.run, pre))]

\* a press has started a drag
ObsDrag(h) ==
    IF h # "runs" \/ obs.pend # <<>> \/ dragging_object # None
    THEN ObsReset("drag")
    ELSE [ObsReset("drag") EXCEPT
              !.run  = IF obs.undos > 0 \/ obs.redone THEN <<>> ELSE obs.run,
              !.pend = <<control_points>>]

\* a drag move has changed a point
ObsMove(h, op) ==
    IF h # "runs" \/ obs.pend = <<>> THEN ObsReset(op) ELSE [obs EXCEPT !.op = op]

\* the left button was released
ObsRelease(h) ==
    IF h # "runs" THEN ObsReset("release")
    ELSE IF obs.pend # <<>> /\ ~is_locked /\ dragging_object # None
    THEN ObsMutation(h, "release", obs.pend[1])
    ELSE [obs EXCEPT !.op = "release", !.pend = <<>>]

\* undo() has popped a snapshot
ObsUndo(h) ==
    IF h = "runs" /\ obs.pend = <<>> /\ ~obs.redone /\ obs.undos < Len(obs.run)
    THEN [obs EXCEPT !.op = "undo", !.undos = obs.undos + 1, !.mark = <<control_points>>]
    ELSE ObsReset("undo")

\* redo() has restored a snapshot
ObsRedo(h) ==
    IF h = "runs" /\ obs.pend = <<>> /\ ~obs.redone /\ obs.undos = 1
    THEN [ObsReset("redo") EXCEPT !.mark = obs.mark, !.redone = TRUE]
    ELSE ObsReset("redo")

\* the handler's result new becomes the state, the observer becomes o
Commit(new, o) ==
    /\ control_points' = new.control_points
    /\ selected_point_index' = new.selected_point_index
    /\ undo_stack' = new.undo_stack
    /\ redo_stack' = new.redo_stack
    /\ dragging_object' = new.dragging_object
    /\ drag_start_in_tangent_abs' = new.drag_start_in_tangent_abs
    /\ drag_start_out_tangent_abs' = new.drag_start_out_tangent_abs
    /\ is_locked' = new.is_locked
    /\ curve_width' = new.curve_width
    /\ grid_args' = new.grid_args
    /\ exc' = new.exc
    /\ obs' = o

\* the editing actions stay within the bounds of the model
Bounded(new, max_history) ==
    /\ Len(new.control_points) <= MaxPoints
    /\ Len(new.undo_stack) + Len(new.redo_stack) <= max_history
    /\ \A i \in 1..Len(new.control_points) :
          /\ ManhattanLength(new.control_points[i].in_tangent) <= MaxTangent * FP
          /\ ManhattanLength(new.control_points[i].out_tangent) <= MaxTangent * FP

Init ==
    /\ control_points = Constructed.control_points
    /\ selected_point_index = Constructed.selected_point_index
    /\ undo_stack = Constructed.undo_stack
    /\ redo_stack = Constructed.redo_stack
    /\ dragging_object = Constructed.dragging_object
    /\ drag_start_in_tangent_abs = Constructed.drag_start_in_tangent_abs
    /\ curve_width = Constructed.curve_width
    /\ grid_args = Constructed.grid_args
    /\ drag_start_out_tangent_abs = Constructed.drag_start_out_tangent_abs
    /\ is_locked = Constructed.is_locked
    /\ exc = Constructed.exc
    /\ left_button_down = FALSE
    /\ obs = ObsReset("init")

\* the handler's result new is within the bounds of the configuration c
Within(c, new) ==
    /\ Bounded(new, c.max_history)
    /\ \/ Len(obs.log) < c.max_log
       \/ new.undo_stack = undo_stack /\ new.control_points = control_points

----------------------------------------------------------------------------
(* Actions: one per event handler.  A configuration c gives the inputs of  *)
(* a specification: the press and move positions, the documents, the bound *)
(* on the history and what the observer keeps.                             *)

\* left mouse button pressed on the canvas at the pixel p
LeftPressAt(c, p) ==
    /\ ~left_button_down
    /\ left_button_down' = TRUE
    /\ LET pos  == EventPos(p)
           kind == PressKind(cur, pos)
           new  == mousePressLeft(cur, pos)
       IN  /\ Within(c, new)
           /\ Commit(new,
                IF kind = "highlight" THEN obs
                ELSE Logged(c.h, IF kind = "drag" THEN ObsDrag(c.h)
                                 ELSE ObsMutation(c.h, kind, control_points), new))

\* left mouse button pressed on the canvas
LeftPressIn(c) == \E p \in c.presses : LeftPressAt(c, p)

\* middle mouse button pressed on the canvas at the pixel p
MiddlePressAt(c, p) ==
    /\ UNCHANGED left_button_down
    /\ LET new == mousePressMiddle(cur, EventPos(p))
       IN  /\ Within(c, new)
           /\ Commit(new, IF new.undo_stack # undo_stack
                          THEN Logged(c.h, ObsMutation(c.h, "delete", control_points), new)
                          ELSE obs)

\* middle mouse button pressed on the canvas
MiddlePressIn(c) == \E p \in c.presses : MiddlePressAt(c, p)

\* mouse moved over the canvas, with or without the shift key
MouseMoveIn(c) ==
    /\ UNCHANGED left_button_down
    /\ \E p \in c.moves, shift_pressed \in BOOLEAN :
         LET new == mouseMoveEvent(cur, EventPos(p), shift_pressed)
         IN  /\ Within(c, new)
             /\ Commit(new,
                 IF new.exc # "none" THEN Logged(c.h, ObsReset("move_error"), new)
                 ELSE IF is_locked \/ dragging_object = None THEN obs
                 ELSE Logged(c.h, ObsMove(c.h, IF shift_pressed THEN "shift_move"
                                               ELSE "move"), new))

\* left mouse button released
LeftReleaseIn(c) ==
    /\ left_button_down
    /\ left_button_down' = FALSE
    /\ LET new == mouseReleaseLeft(cur)
       IN  Commit(new, Logged(c.h, ObsRelease(c.h), new))

\* key C
KeyCIn(c) ==
    /\ UNCHANGED left_button_down
    /\ LET new == keyPressEvent(cur, "C")
       IN  /\ Within(c, new)
           /\ Commit(new, IF is_locked THEN obs
                          ELSE Logged(c.h, ObsMutation(c.h, "clear", control_points), new))

\* key M
KeyMIn(c) ==
    /\ UNCHANGED left_button_down
    /\ LET new == keyPressEvent(cur, "M")
       IN  /\ Within(c, new)
           /\ Commit(new,
                 IF new.exc # "none" THEN Logged(c.h, ObsReset("mirror_error"), new)
                 ELSE IF is_locked \/ selected_point_index = None THEN obs
                 ELSE Logged(c.h, ObsMutation(c.h, "mirror", control_points), new))

\* the Undo key sequence
KeyUndoIn(c) ==
    /\ UNCHANGED left_button_down
    /\ LET new == keyPressEvent(cur, "Undo")
       IN  Commit(new,
               IF is_locked THEN obs
               ELSE IF new.undo_stack = undo_stack
               THEN Logged(c.h, ObsReset("undo_noop"), new)
               ELSE Logged(c.h, ObsUndo(c.h), new))

\* the Redo key sequence
KeyRedoIn(c) ==
    /\ UNCHANGED left_button_down
    /\ LET new == keyPressEvent(cur, "Redo")
       IN  Commit(new,
               IF is_locked THEN obs
               ELSE IF new.undo_stack = undo_stack
               THEN Logged(c.h, ObsReset("redo_noop"), new)
               ELSE Logged(c.h, ObsRedo(c.h), new))

\* File > Import Track
ImportTrackIn(c) ==
    /\ UNCHANGED left_button_down
    /\ \E doc \in c.docs :
         LET new == import_track(cur, doc)
         IN  /\ Within(c, new)
             /\ Commit(new, IF new.undo_stack # undo_stack
                            THEN Logged(c.h, ObsMutation(c.h, "import", control_points), new)
                            ELSE obs)

\* the mode button toggled
ToggleMode ==
    /\ UNCHANGED left_button_down
    /\ Commit(toggle_mode(cur, ~is_locked), ObsReset("toggle_mode"))

----------------------------------------------------------------------------
(* The editor in design mode, every handler with every input. *)

Editor ==
    [h |-> "op", presses |-> MousePositions, moves |-> MovePositions,
     docs |-> ImportDocs, max_history |-> MaxHistory, max_log |-> MaxPushes]

LeftPress == LeftPressIn(Editor)

MiddlePress == MiddlePressIn(Editor)

MouseMove == MouseMoveIn(Editor)

LeftRelease == LeftReleaseIn(Editor)

KeyC == KeyCIn(Editor)

KeyM == KeyMIn(Editor)

KeyUndo == KeyUndoIn(Editor)

KeyRedo == KeyRedoIn(Editor)

ImportTrack == ImportTrackIn(Editor)

Next ==
    \/ LeftPress
    \/ MiddlePress
    \/ MouseMove
    \/ LeftRelease
    \/ KeyC
    \/ KeyM
    \/ KeyUndo
    \/ KeyRedo
    \/ ImportTrack

Spec == Init /\ [][Next]_vars

----------------------------------------------------------------------------
(* The editor with the runs of mutations followed: presses on the two end  *)
(* points, one more snapshot of history, a file that loads.                *)

Runs ==
    [h |-> "runs", presses |-> {<<100, 100>>, <<500, 100>>}, moves |-> MovePositions,
     docs |-> {DocOne}, max_history |-> MaxDeep, max_log |-> MaxPushes]

RunLeftPress == LeftPressIn(Runs)

RunMouseMove == MouseMoveIn(Runs)

RunLeftRelease == LeftReleaseIn(Runs)

RunKeyM == KeyMIn(Runs)

RunKeyUndo == KeyUndoIn(Runs)

RunKeyRedo == KeyRedoIn(Runs)

RunImportTrack == ImportTrackIn(Runs)

NextHist ==
    \/ RunLeftPress
    \/ RunMouseMove
    \/ RunLeftRelease
    \/ RunKeyM
    \/ RunKeyUndo
    \/ RunKeyRedo
    \/ RunImportTrack

SpecHist == Init /\ [][NextHist]_vars

----------------------------------------------------------------------------
(* The editor filling its history: one point is added and its mirroring    *)
(* toggled again and again, each toggle pushing a snapshot.                *)

Filling ==
    [h |-> "log", presses |-> {<<100, 100>>}, moves |-> {}, docs |-> {},
     max_history |-> MaxPushes, max_log |-> MaxPushes]

CapLeftPress == LeftPressIn(Filling)

CapKeyM == KeyMIn(Filling)

CapKeyUndo == KeyUndoIn(Filling)

CapKeyRedo == KeyRedoIn(Filling)

NextCap ==
    \/ CapLeftPress
    \/ CapKeyM
    \/ CapKeyUndo
    \/ CapKeyRedo

SpecCap == Init /\ [][NextCap]_vars

----------------------------------------------------------------------------
(* Properties of the undo and redo history. *)

\* C1: in every reachable state undo_stack holds at least one entry.
C1_UndoStackNeverEmpty == Len(undo_stack) >= 1

\* undo has gone back to the bottom entry, with snapshots to redo
C1_UndoneToBaseline ==
    /\ obs.op = "undo"
    /\ Len(undo_stack) = 1
    /\ Len(redo_stack) >= 2

\* C2: between handlers the top entry of undo_stack equals the current
\* control_points, point by point, also after point drags and tangent drags.
C2_TopOfUndoStackIsCurrent == control_points = Last(undo_stack)

\* C3: undo_stack never holds more than 50 entries, and the snapshots pushed
\* one after another are its newest entries in push order: once 50 or more
\* have been pushed the stack is exactly the last 50 of them.
C3_UndoStackKeepsLast50 ==
    LET n == Len(undo_stack)
        k == Min(Len(obs.log), UndoCap)
    IN  /\ n <= UndoCap
        /\ n >= k
        /\ SubSeq(undo_stack, n - k + 1, n)
               = SubSeq(obs.log, Len(obs.log) - k + 1, Len(obs.log))
        /\ Len(obs.log) >= UndoCap => n = UndoCap

\* more than 50 snapshots have been pushed in a row
C3_PushedPastCapacity ==
    /\ Len(obs.log) > UndoCap
    /\ Len(undo_stack) = UndoCap
    /\ undo_stack[1] # <<>>

\* C4: every operation other than undo and redo that changes control_points
\* leaves redo_stack empty, a drag move after an undo during the drag included.
C4_MutationsClearRedo ==
    [][(control_points' # control_points /\ ~KeyUndo /\ ~KeyRedo)
           => redo_stack' = <<>>]_vars

\* C5: undo() with more than one entry on undo_stack moves the top entry onto
\* redo_stack, redo() with a non-empty redo_stack moves the top redo entry
\* onto undo_stack; both set control_points to a copy of the new top of
\* undo_stack and selected_point_index to none.
C5_UndoRedoMoveTopAndRestore ==
    [][/\ (KeyUndo /\ Len(undo_stack) > 1) =>
              /\ undo_stack' = Front(undo_stack)
              /\ redo_stack' = Append(redo_stack, Last(undo_stack))
              /\ control_points' = Last(Front(undo_stack))
              /\ selected_point_index' = None
              /\ exc' = "none"
       /\ (KeyRedo /\ Len(redo_stack) > 0) =>
              /\ redo_stack' = Front(redo_stack)
              /\ undo_stack' = Append(undo_stack, Last(redo_stack))
              /\ control_points' = Last(redo_stack)
              /\ selected_point_index' = None
              /\ exc' = "none"]_vars

\* after undos, a redo has restored a curve with points, more left to redo
C5_RedoneAfterUndos ==
    /\ obs.op = "redo"
    /\ control_points # <<>>
    /\ control_points = Last(undo_stack)
    /\ redo_stack # <<>>
    /\ selected_point_index = None

\* C6: undo() with exactly one entry on undo_stack and redo() with an empty
\* redo_stack change none of control_points, selected_point_index, undo_stack
\* and redo_stack, and raise no error.
C6_UnderflowIsNoOp ==
    [][((KeyUndo /\ Len(undo_stack) = 1) \/ (KeyRedo /\ Len(redo_stack) = 0)) =>
           /\ UNCHANGED <<control_points, selected_point_index, undo_stack, redo_stack>>
           /\ exc' = "none"]_vars

\* redo() was called with nothing to redo, on a curve with a selected point
C6_RedoWithEmptyRedoStack ==
    /\ obs.op = "redo_noop"
    /\ redo_stack = <<>>
    /\ control_points # <<>>
    /\ selected_point_index # None

\* C7: N undo() calls directly after N consecutive committed mutations leave
\* control_points as they were before those N mutations.
C7_UndosRestoreBaseline ==
    obs.undos >= 1 => control_points = obs.run[Len(obs.run) - obs.undos + 1]

\* C8: a mutation, then undo(), then redo() leave control_points as they were
\* just before the undo.
C8_RedoRestoresUndoneState ==
    obs.redone => control_points = obs.mark[1]

\* C9: selected_point_index is none or an index into control_points.
C9_SelectionInRange ==
    \/ selected_point_index = None
    \/ /\ 0 <= selected_point_index[1]
       /\ selected_point_index[1] < Len(control_points)

----------------------------------------------------------------------------
(* Properties of mirrored points. *)

\* every mirrored point of a list of points has opposite tangents
Opposite(points) ==
    \A i \in 1..Len(points) :
        points[i].mirrored => points[i].out_tangent = VNeg(points[i].in_tangent)

\* every mirrored point of the curve and of the snapshots has opposite tangents
OppositeEverywhere ==
    /\ Opposite(control_points)
    /\ \A k \in 1..Len(undo_stack) : Opposite(undo_stack[k])
    /\ \A k \in 1..Len(redo_stack) : Opposite(redo_stack[k])

\* the operations that write tangents or flags without mirroring
Unmirroring == {"split", "shift_move", "mirror", "import"}

\* C10 as stated: in every reachable state every mirrored point has
\* out_tangent equal to the negation of in_tangent.
C10_MirroredAlwaysOpposite == Opposite(control_points)

\* C10, amended: the editor starts with every mirrored point's tangents
\* opposite, in the curve and in the snapshots, and every operation other than
\* segment split, shift-drag, mirror toggle and import keeps them so.
C10_PlainEditsKeepMirroredOpposite ==
    /\ OppositeEverywhere
    /\ [][(OppositeEverywhere /\ obs'.op \notin Unmirroring)
              => OppositeEverywhere']_vars

\* a handle of a mirrored point has been dragged away from where it was
C10_MirroredHandleDragged ==
    /\ obs.op = "move"
    /\ dragging_object # None
    /\ dragging_object[1] \in {"in_handle", "out_handle"}
    /\ dragging_object[2] < Len(control_points)
    /\ LET pt == control_points[dragging_object[2] + 1]
       IN  /\ pt.mirrored
           /\ pt.out_tangent = VNeg(pt.in_tangent)
           /\ pt.in_tangent[2] # 0

----------------------------------------------------------------------------
(* The editor dragging handles: one point is added, its mirroring toggled, *)
(* and the point and its two handles are pressed and dragged.              *)

\* the places of a point, of its out-handle and of its in-handle, in pixels
HandlePositions == {<<100, 100>>, <<300, 100>>, <<-100, 100>>}

\* the place to drag to, in pixels
DragTargets == {<<200, 200>>}

Dragging ==
    [h |-> "op", presses |-> HandlePositions, moves |-> DragTargets,
     docs |-> {}, max_history |-> MaxDeep, max_log |-> MaxPushes]

DragLeftPress == LeftPressIn(Dragging)

DragMouseMove == MouseMoveIn(Dragging)

DragLeftRelease == LeftReleaseIn(Dragging)

DragKeyM == KeyMIn(Dragging)

NextDrag ==
    \/ DragLeftPress
    \/ DragMouseMove
    \/ DragLeftRelease
    \/ DragKeyM

SpecDrag == Init /\ [][NextDrag]_vars

\* C11: a drag move of a tangent handle of a mirrored point leaves the point's
\* out_tangent the exact negation of its in_tangent; of a point that is not
\* mirrored, it leaves the tangent that is not dragged unchanged.
C11_TangentDragMirrorsOrLeavesOther ==
    [][(/\ DragMouseMove
        /\ ~is_locked
        /\ dragging_object # None
        /\ dragging_object[1] \in {"in_handle", "out_handle"}
        /\ dragging_object[2] < Len(control_points))
       => LET i   == dragging_object[2] + 1
              old == control_points[i]
              new == control_points'[i]
          IN  /\ Len(control_points') = Len(control_points)
              /\ IF old.mirrored
                 THEN new.out_tangent = VNeg(new.in_tangent)
                 ELSE IF dragging_object[1] = "in_handle"
                 THEN new.out_tangent = old.out_tangent
                 ELSE new.in_tangent = old.in_tangent]_vars

\* the out-handle of a point that is not mirrored has been dragged away, the
\* in-handle staying where a new point has it
C11_UnmirroredHandleDragged ==
    /\ obs.op = "move"
    /\ dragging_object = <<"out_handle", 0>>
    /\ Len(control_points) = 1
    /\ ~control_points[1].mirrored
    /\ control_points[1].in_tangent = <<-(DefaultTangent * FP), 0>>
    /\ control_points[1].out_tangent[2] # 0

----------------------------------------------------------------------------
(* The editor placing points: presses on and beside a line of places add,  *)
(* split and delete points, files load two points apart or at one place.   *)

\* three places on a line, the middle one nearer the first, and a place off
\* the line, in pixels
PlacePositions == {<<100, 100>>, <<200, 100>>, <<500, 100>>, <<300, 300>>}

Placing ==
    [h |-> "op", presses |-> PlacePositions, moves |-> {},
     docs |-> {DocTwo, DocTwin}, max_history |-> MaxDeep, max_log |-> MaxPushes]

PlaceLeftPress == LeftPressIn(Placing)

PlaceLeftRelease == LeftReleaseIn(Placing)

PlaceMiddlePress == MiddlePressIn(Placing)

PlaceImportTrack == ImportTrackIn(Placing)

NextPlace ==
    \/ PlaceLeftPress
    \/ PlaceLeftRelease
    \/ PlaceMiddlePress
    \/ PlaceImportTrack

SpecPlace == Init /\ [][NextPlace]_vars

\* a point as a new point is made, at any position
IsNewPoint(pt) == pt = ControlPoint(pt.pos)

\* C12: a press that adds a point puts a new point alone in an empty sequence,
\* at index 0 when it is strictly closer to the first point than to the last,
\* and at the end otherwise; the new point is selected and the existing points
\* keep their values and order.
C12_AddPrependsOrAppends ==
    [][(PlaceLeftPress /\ obs'.op = "add") =>
          LET old == control_points
              new == control_points'
          IN  /\ Len(new) = Len(old) + 1
              /\ \/ /\ old = <<>>
                    /\ IsNewPoint(new[1])
                    /\ selected_point_index' = Some(0)
                 \/ /\ old # <<>>
                    /\ new = <<new[1]>> \o old
                    /\ IsNewPoint(new[1])
                    /\ Length2(new[1].pos, old[1].pos)
                           < Length2(new[1].pos, Last(old).pos)
                    /\ selected_point_index' = Some(0)
                 \/ /\ old # <<>>
                    /\ new = Append(old, Last(new))
                    /\ IsNewPoint(Last(new))
                    /\ Length2(Last(new).pos, old[1].pos)
                           >= Length2(Last(new).pos, Last(old).pos)
                    /\ selected_point_index' = Some(Len(old))]_vars

\* a point has been added in front of two points
C12_AddedInFront ==
    /\ obs.op = "add"
    /\ Len(control_points) = 3
    /\ selected_point_index = Some(0)
    /\ control_points[1].pos = screen_to_grid(EventPos(<<100, 100>>))

\* the 1-based indices of the points whose screen position is less than the
\* pick radius, twice the handle radius, away from the pixel p
WithinPickRadius(points, p) ==
    {i \in 1..Len(points) :
        Length2(grid_to_screen(points[i].pos), EventPos(p))
            < Pixels(2 * handle_radius) * Pixels(2 * handle_radius)}

\* C13: a delete at a position removes exactly the highest-index point within
\* the pick radius, clears the selection and pushes exactly one snapshot; with
\* no point within the pick radius it changes none of control_points, the
\* selection, undo_stack and redo_stack.
C13_DeleteRemovesHighestInRadius ==
    [][\A p \in PlacePositions :
          MiddlePressAt(Placing, p) =>
              LET near == WithinPickRadius(control_points, p)
              IN  IF near = {}
                  THEN UNCHANGED <<control_points, selected_point_index,
                                   undo_stack, redo_stack>>
                  ELSE LET i == CHOOSE k \in near : \A m \in near : m <= k
                       IN  /\ control_points' =
                                  SubSeq(control_points, 1, i - 1)
                                      \o SubSeq(control_points, i + 1, Len(control_points))
                           /\ selected_point_index' = None
                           /\ undo_stack' = Append(undo_stack, control_points')
                           /\ redo_stack' = <<>>]_vars

\* of two points at one place the second has been deleted
C13_DeletedSecondOfTwins ==
    /\ obs.op = "delete"
    /\ Len(control_points) = 1
    /\ control_points[1].mirrored
    /\ Len(undo_stack) >= 2
    /\ undo_stack[Len(undo_stack) - 1] = read_track(DocTwin)

\* C14: a split of segment i at t grows the sequence by one point, inserted
\* at index i + 1 and selected; it scales points[i].out_tangent by t and the
\* old points[i + 1].in_tangent by 1 - t, and changes no other field of any
\* existing point.
C14_SplitInsertsAndShrinksEnds ==
    [][\A p \in PlacePositions :
          (LeftPressAt(Placing, p) /\ obs'.op = "split") =>
              LET closest == find_closest_segment(control_points, EventPos(p))
                  i     == closest[2][1] + 1
                  j     == closest[3]
                  steps == closest[4]
                  old   == control_points
                  new   == control_points'
              IN  /\ Len(new) = Len(old) + 1
                  /\ selected_point_index' = Some(i)
                  /\ \A k \in 1..Len(old) :
                        LET was == old[k]
                            now == new[IF k <= i THEN k ELSE k + 1]
                        IN  /\ now.pos = was.pos
                            /\ now.mirrored = was.mirrored
                            /\ now.out_tangent =
                                   IF k = i
                                   THEN <<RoundDiv(was.out_tangent[1] * j, steps),
                                          RoundDiv(was.out_tangent[2] * j, steps)>>
                                   ELSE was.out_tangent
                            /\ now.in_tangent =
                                   IF k = i + 1
                                   THEN <<RoundDiv(was.in_tangent[1] * (steps - j), steps),
                                          RoundDiv(was.in_tangent[2] * (steps - j), steps)>>
                                   ELSE was.in_tangent]_vars

\* a segment has been split away from its middle
C14_SplitAwayFromMiddle ==
    /\ obs.op = "split"
    /\ Len(control_points) = 3
    /\ selected_point_index = Some(1)
    /\ control_points[1].out_tangent # <<DefaultTangent * FP, 0>>
    /\ control_points[2].in_tangent # VNeg(control_points[2].out_tangent)

----------------------------------------------------------------------------
(* The editor redrawing the grid: points are added, split, dragged,        *)
(* deleted, cleared, loaded and undone at several widths.                  *)

\* the width slider moved
SetCurveWidthIn(c) ==
    /\ UNCHANGED left_button_down
    /\ \E value \in c.widths :
         LET new == set_curve_width(cur, value)
         IN  Commit(new, IF new.curve_width # curve_width
                         THEN Logged(c.h, ObsReset("width"), new)
                         ELSE obs)

\* widths the slider is moved to, next to the width after construction
Widths == {2, 5}

Drawing ==
    [h |-> "op", presses |-> {<<100, 100>>, <<500, 100>>, <<200, 100>>},
     moves |-> MovePositions, docs |-> {DocTwo}, widths |-> Widths,
     max_history |-> MaxHistory, max_log |-> MaxPushes]

DrawLeftPress == LeftPressIn(Drawing)

DrawMiddlePress == MiddlePressIn(Drawing)

DrawMouseMove == MouseMoveIn(Drawing)

DrawLeftRelease == LeftReleaseIn(Drawing)

DrawKeyC == KeyCIn(Drawing)

DrawKeyUndo == KeyUndoIn(Drawing)

DrawKeyRedo == KeyRedoIn(Drawing)

DrawImportTrack == ImportTrackIn(Drawing)

DrawSetCurveWidth == SetCurveWidthIn(Drawing)

NextDraw ==
    \/ DrawLeftPress
    \/ DrawMiddlePress
    \/ DrawMouseMove
    \/ DrawLeftRelease
    \/ DrawKeyC
    \/ DrawKeyUndo
    \/ DrawKeyRedo
    \/ DrawImportTrack
    \/ DrawSetCurveWidth

SpecDraw == Init /\ [][NextDraw]_vars

\* C15: between handlers grid_blocks is the rasterization of the current
\* control_points at the current curve_width, and it is empty whenever fewer
\* than 2 points exist.
C15_GridIsRasterOfCurrentCurve ==
    /\ grid_blocks = Rasterize(control_points, curve_width)
    /\ Len(control_points) < 2 => grid_blocks = {}

\* the width has been changed under a curve, which is drawn
C15_WidthChangedUnderCurve ==
    /\ obs.op = "width"
    /\ curve_width # DefaultCurveWidth
    /\ Len(control_points) >= 2
    /\ grid_blocks # {}
    /\ grid_args[2] = curve_width

----------------------------------------------------------------------------
(* The disc stamp of update_grid_with_curve as a function of one sample    *)
(* position and one width: the editor stays as constructed, the observer   *)
(* holds the input and, after the call, the stamped cells.                 *)

\* the width slider's range
MinWidth == 1

MaxWidth == 25

\* the editor as constructed, with no handler running
Untouched ==
    /\ control_points = Constructed.control_points
    /\ selected_point_index = Constructed.selected_point_index
    /\ undo_stack = Constructed.undo_stack
    /\ redo_stack = Constructed.redo_stack
    /\ dragging_object = Constructed.dragging_object
    /\ drag_start_in_tangent_abs = Constructed.drag_start_in_tangent_abs
    /\ drag_start_out_tangent_abs = Constructed.drag_start_out_tangent_abs
    /\ is_locked = Constructed.is_locked
    /\ curve_width = Constructed.curve_width
    /\ grid_args = Constructed.grid_args
    /\ exc = Constructed.exc
    /\ left_button_down = FALSE

editor == <<control_points, selected_point_index, undo_stack, redo_stack,
            dragging_object, drag_start_in_tangent_abs,
            drag_start_out_tangent_abs, is_locked, curve_width, grid_args,
            exc, left_button_down>>

\* sample positions around the origin, in every fraction of a cell along x
MaxOffset == 10

SamplePositions == ((-MaxOffset)..MaxOffset) \X {-3, 0, 5, 12}

InitStamp ==
    /\ Untouched
    /\ \E pt \in SamplePositions, width \in MinWidth..MaxWidth :
         obs = [op |-> "sample", pt |-> pt, width |-> width, cells |-> {}]

\* the two loops over the bounding box of one sample
StampSample ==
    /\ obs.op = "sample"
    /\ obs' = [obs EXCEPT !.op = "stamp", !.cells = Stamp(obs.pt, obs.width)]
    /\ UNCHANGED editor

NextStamp == StampSample

SpecStamp == InitStamp /\ [][NextStamp]_vars

\* the cells within reach cells of the cell that holds pt
Around(pt, reach) ==
    ((Floor(pt[1]) - reach)..(Floor(pt[1]) + reach))
        \X ((Floor(pt[2]) - reach)..(Floor(pt[2]) + reach))

\* the centre (x + 0.5, y + 0.5) of cell c is within width/2 of pt; all
\* lengths doubled
CentreWithin(pt, width, c) ==
    LET dx == (2 * c[1] + 1) * FP - 2 * pt[1]
        dy == (2 * c[2] + 1) * FP - 2 * pt[2]
    IN  dx * dx + dy * dy <= width * width * FP * FP

\* floor(a) <= x < ceil(b) for an integer x
InHalfOpen(x, a, b) == a < (x + 1) * FP /\ x * FP < b

\* C16: the stamp of a sample is exactly the set of cells whose centre lies
\* within width/2 of the sample, and every such cell is inside the
\* floor/ceil bounding box [floor(s - r), ceil(s + r)) in x and in y.
C16_StampIsDiscOfCellCentres ==
    obs.op = "stamp" =>
        LET near == {c \in Around(obs.pt, obs.width) :
                        CentreWithin(obs.pt, obs.width, c)}
        IN  /\ obs.cells = near
            /\ \A c \in near :
                  /\ InHalfOpen(c[1], obs.pt[1] - (obs.width * FP) \div 2,
                                obs.pt[1] + (obs.width * FP) \div 2)
                  /\ InHalfOpen(c[2], obs.pt[2] - (obs.width * FP) \div 2,
                                obs.pt[2] + (obs.width * FP) \div 2)

\* a stamp at an even width off the cell corners, where the box is wider
\* than the disc
C16_StampedOffCorner ==
    /\ obs.op = "stamp"
    /\ obs.width = 2
    /\ obs.pt = <<9, 5>>
    /\ obs.cells = {<<0, 0>>, <<1, 0>>}

----------------------------------------------------------------------------
\* two sets of cells that share a cell or hold two cells next to each other,
\* diagonals included
Touching(A, B) ==
    \E a \in A, b \in B : Abs(a[1] - b[1]) <= 1 /\ Abs(a[2] - b[2]) <= 1

\* C17: for a curve of at least 2 points at any width the slider allows, the
\* cells stamped by two consecutive samples of a segment overlap or are
\* grid-adjacent, so the raster of the curve has no gaps.
C17_ConsecutiveStampsTouch ==
    (Len(control_points) >= 2 /\ curve_width \in MinWidth..MaxWidth) =>
        \A i \in 0..(Len(control_points) - 2) :
            \A t_step \in 0..(SegmentGeometry(control_points, i).steps - 1) :
                Touching(Stamp(Sample(control_points, i, t_step), curve_width),
                         Stamp(Sample(control_points, i, t_step + 1), curve_width))

----------------------------------------------------------------------------
(* CurveModel._adaptive_steps as a function of a control polygon, applied  *)
(* to two polygons at a time.                                              *)

\* control polygons <<p0, p1, p2, p3>> from a point to itself up to lengths
\* well past twice the least step count
Polygons ==
    {<<0, 0>>} \X {<<0, 0>>, <<200, 0>>, <<135, 82>>}
               \X {<<50, 0>>, <<200, 0>>, <<300, 400>>}
               \X {<<0, 0>>, <<400, 0>>, <<419, 0>>, <<420, 0>>, <<600, -300>>}

InitSteps ==
    /\ Untouched
    /\ \E a \in Polygons, b \in Polygons :
         obs = [op |-> "polygons", a |-> a, b |-> b, steps_a |-> 0, steps_b |-> 0]

\* steps = self.model._adaptive_steps(p0.pos, p1_abs, p2_abs, p3.pos)
CountSteps ==
    /\ obs.op = "polygons"
    /\ obs' = [obs EXCEPT !.op = "steps",
                          !.steps_a = adaptive_steps(obs.a[1], obs.a[2], obs.a[3], obs.a[4]),
                          !.steps_b = adaptive_steps(obs.b[1], obs.b[2], obs.b[3], obs.b[4])]
    /\ UNCHANGED editor

NextSteps == CountSteps

SpecSteps == InitSteps /\ [][NextSteps]_vars

\* the length L of a control polygon
PolygonLength(g) == Length(g[1], g[2]) + Length(g[2], g[3]) + Length(g[3], g[4])

\* n = max(20, floor(L / 2)) for a length L in fixed point
IsStepsOf(n, L) ==
    IF L < 2 * 20 * FP THEN n = 20
    ELSE 2 * n * FP <= L /\ L < 2 * (n + 1) * FP

\* C18: adaptive_step_count is max(20, floor(L / 2)) for the control-polygon
\* length L, hence at least 20, and a polygon that is not longer than
\* another gets no more steps.
C18_StepsAtLeast20AndMonotone ==
    obs.op = "steps" =>
        /\ IsStepsOf(obs.steps_a, PolygonLength(obs.a))
        /\ IsStepsOf(obs.steps_b, PolygonLength(obs.b))
        /\ obs.steps_a >= 20 /\ obs.steps_b >= 20
        /\ PolygonLength(obs.a) <= PolygonLength(obs.b) => obs.steps_a <= obs.steps_b

\* a short polygon at the least count next to a longer one above it
C18_ShortAndLongPolygon ==
    /\ obs.op = "steps"
    /\ PolygonLength(obs.a) < PolygonLength(obs.b)
    /\ PolygonLength(obs.a) < 2 * 20 * FP
    /\ obs.steps_a = 20
    /\ obs.steps_b > 20

----------------------------------------------------------------------------
(* Canvas._find_closest_segment as a function of the control points and a  *)
(* screen position.                                                        *)

\* an unmirrored point with its out handle turned upwards
Bent(x, y) ==
    [ControlPoint(<<x * FP, y * FP>>) EXCEPT !.out_tangent = <<0, -(20 * FP)>>,
                                             !.mirrored = FALSE]

\* no curve, a lone point, one segment, two segments with a joint, a bent
\* curve, and a curve that returns to its first point
Curves ==
    {<<>>,
     <<ControlPoint(<<510 * FP, 510 * FP>>)>>,
     <<ControlPoint(<<510 * FP, 510 * FP>>), ControlPoint(<<550 * FP, 510 * FP>>)>>,
     <<ControlPoint(<<510 * FP, 510 * FP>>), ControlPoint(<<550 * FP, 510 * FP>>),
       ControlPoint(<<590 * FP, 510 * FP>>)>>,
     <<Bent(510, 510), ControlPoint(<<550 * FP, 510 * FP>>), Bent(580, 530)>>,
     <<ControlPoint(<<510 * FP, 510 * FP>>), Bent(550, 510),
       ControlPoint(<<510 * FP, 510 * FP>>)>>}

\* screen positions of the query, in pixels: on points, on joints, between
\* samples and off the curve
QueryPositions == {100, 130, 300, 500, 520, 700, 900} \X {100, 160, 300}

InitClosest ==
    /\ Untouched
    /\ \E points \in Curves, q \in QueryPositions :
         obs = [op |-> "query", points |-> points, pos |-> EventPos(q),
                closest |-> <<>>]

\* min_dist, closest_segment_idx, closest_t = self._find_closest_segment(pos)
FindClosest ==
    /\ obs.op = "query"
    /\ obs' = [obs EXCEPT !.op = "closest",
                          !.closest = find_closest_segment(obs.points, obs.pos)]
    /\ UNCHANGED editor

NextClosest == FindClosest

SpecClosest == InitClosest /\ [][NextClosest]_vars

\* all samples <<segment, j>> of a curve
Samples(points) ==
    UNION {{<<i, j>> : j \in 0..SegmentGeometry(points, i).steps} :
              i \in 0..(Len(points) - 2)}

\* squared screen distance of sample k to pos
DistanceOf(points, k, pos) == SampleDist2(SegmentGeometry(points, k[1]), k[2], pos)

\* sample a comes before sample b in the order of segments, then of t
Before(a, b) == a[1] < b[1] \/ (a[1] = b[1] /\ a[2] <= b[2])

\* C19: closest_segment returns (infinity, none, none) for fewer than 2
\* points; otherwise a segment index and t = j/steps of a sample whose
\* distance is minimal over all samples of all segments, and of the samples
\* at that distance the first by segment index, then by t.
C19_ClosestIsFirstNearestSample ==
    obs.op = "closest" =>
        IF Len(obs.points) < 2
        THEN obs.closest = <<Infinity, None, None, None>>
        ELSE /\ obs.closest[2] # None
             /\ LET k == <<obs.closest[2][1], obs.closest[3]>>
                IN  /\ k \in Samples(obs.points)
                    /\ obs.closest[4] = SegmentGeometry(obs.points, k[1]).steps
                    /\ obs.closest[1] = DistanceOf(obs.points, k, obs.pos)
                    /\ \A other \in Samples(obs.points) :
                          /\ DistanceOf(obs.points, other, obs.pos) >= obs.closest[1]
                          /\ DistanceOf(obs.points, other, obs.pos) = obs.closest[1]
                                => Before(k, other)

\* a query on the joint of two segments, answered with the end of the first
C19_JointIsEndOfFirstSegment ==
    /\ obs.op = "closest"
    /\ Len(obs.points) = 3
    /\ obs.pos = grid_to_screen(obs.points[2].pos)
    /\ obs.closest[1] = 0
    /\ obs.closest[2] = Some(0)
    /\ obs.closest[3] = obs.closest[4]

----------------------------------------------------------------------------
(* Loading tracks into the editor: points are added by presses and files   *)
(* are imported; the observer notes each return of import_track with the   *)
(* document that was read.                                                 *)

\* the import handler has returned from reading doc
ImportTrackAt(c, doc) ==
    /\ UNCHANGED left_button_down
    /\ LET new == import_track(cur, doc)
       IN  /\ Within(c, new)
           /\ Commit(new, [ObsReset("import") EXCEPT !.mark = <<doc>>])

Loading ==
    [h |-> "op", presses |-> {<<100, 100>>, <<500, 100>>},
     moves |-> {},
     docs |-> {DocCancelled, DocUnreadable, DocEmpty, DocOne, DocTwo, DocBad},
     max_history |-> MaxDeep, max_log |-> MaxPushes]

LoadLeftPress == LeftPressIn(Loading)

LoadLeftRelease == LeftReleaseIn(Loading)

LoadKeyC == KeyCIn(Loading)

LoadImportTrack == \E doc \in Loading.docs : ImportTrackAt(Loading, doc)

NextLoad ==
    \/ LoadLeftPress
    \/ LoadLeftRelease
    \/ LoadKeyC
    \/ LoadImportTrack

SpecLoad == Init /\ [][NextLoad]_vars

\* a document that was chosen and parses: every entry has all its fields
WellFormed(doc) ==
    doc.path_chosen /\ doc.readable /\ \A i \in 1..Len(doc.entries) : doc.entries[i].wellformed

\* C20: every successful import of a well-formed document, one with an empty
\* control_points list included, replaces the whole sequence by the
\* document's points and pushes exactly one snapshot afterward.
C20_ImportReplacesAndSnapshotsOnce ==
    [][\A doc \in Loading.docs :
          (WellFormed(doc) /\ ImportTrackAt(Loading, doc)) =>
              /\ control_points' = [i \in 1..Len(doc.entries) |-> EntryPoint(doc.entries[i])]
              /\ Len(undo_stack') = Len(undo_stack) + 1
              /\ Last(undo_stack') = control_points']_vars

----------------------------------------------------------------------------
----------------------------------------------------------------------------
(* Dragging points with and without the shift key.  Tracks are loaded,     *)
(* points are picked up by presses on them and moved.                       *)

\* a file with one unmirrored point at grid (510, 510) whose in-handle lies on
\* the origin of the grid
DocOrigin ==
    [path_chosen |-> TRUE, readable |-> TRUE,
     entries |-> <<Entry(<<510 * FP, 510 * FP>>, <<-(510 * FP), -(510 * FP)>>,
                         <<20 * FP, 0>>, FALSE, TRUE)>>]

\* pixels of the presses: on the loaded points and where moves leave them
GrabPositions == {<<100, 100>>, <<500, 100>>, <<200, 200>>}

\* pixels of the moves
DropPositions == {<<200, 200>>, <<300, 140>>}

ShiftImportTrack ==
    /\ UNCHANGED left_button_down
    /\ \E doc \in {DocOrigin, DocTwo} :
         LET new == import_track(cur, doc)
         IN  /\ Len(new.undo_stack) + Len(new.redo_stack) <= MaxDeep
             /\ Commit(new, ObsReset("import"))

\* a left press on a point or a handle
ShiftLeftPress ==
    /\ ~left_button_down
    /\ left_button_down' = TRUE
    /\ \E p \in GrabPositions :
         LET new == mousePressLeft(cur, EventPos(p))
         IN  /\ PressKind(cur, EventPos(p)) = "drag"
             /\ Len(new.undo_stack) + Len(new.redo_stack) <= MaxDeep
             /\ Commit(new, ObsReset("drag"))

\* the mouse moved to the pixel p
ShiftMouseMoveAt(p, shift_pressed) ==
    /\ UNCHANGED left_button_down
    /\ Commit(mouseMoveEvent(cur, EventPos(p), shift_pressed),
              ObsReset(IF shift_pressed THEN "shift_move" ELSE "move"))

ShiftMouseMove ==
    \E p \in DropPositions, shift_pressed \in BOOLEAN : ShiftMouseMoveAt(p, shift_pressed)

ShiftLeftRelease ==
    /\ left_button_down
    /\ left_button_down' = FALSE
    /\ Commit(mouseReleaseLeft(cur), ObsReset("release"))

NextShift ==
    \/ ShiftImportTrack
    \/ ShiftLeftPress
    \/ ShiftMouseMove
    \/ ShiftLeftRelease

SpecShift == Init /\ [][NextShift]_vars

\* C22: a drag move of a point without the modifier changes only that
\* point's position and leaves both tangents as they were; with the modifier,
\* position + in_tangent and position + out_tangent are afterwards the
\* absolute handle positions recorded when the drag started.  No other point
\* is modified.
C22_PointDragKeepsTangentsOrAnchors ==
    [][\A p \in DropPositions, shift_pressed \in BOOLEAN :
          (/\ ShiftMouseMoveAt(p, shift_pressed)
           /\ dragging_object # None
           /\ dragging_object[1] = "point"
           /\ dragging_object[2] < Len(control_points)) =>
              LET i == dragging_object[2] + 1
              IN  /\ Len(control_points') = Len(control_points)
                  /\ \A k \in 1..Len(control_points) :
                        k # i => control_points'[k] = control_points[k]
                  /\ control_points'[i].mirrored = control_points[i].mirrored
                  /\ ~shift_pressed =>
                        /\ control_points'[i].in_tangent = control_points[i].in_tangent
                        /\ control_points'[i].out_tangent = control_points[i].out_tangent
                  /\ shift_pressed =>
                        /\ VAdd(control_points'[i].pos, control_points'[i].in_tangent)
                              = drag_start_in_tangent_abs
                        /\ VAdd(control_points'[i].pos, control_points'[i].out_tangent)
                              = drag_start_out_tangent_abs]_vars

----------------------------------------------------------------------------
\* C23: the mirror toggle flips the mirrored flag of the selected point only,
\* leaves its position, its tangents and every other point unchanged and
\* pushes exactly one snapshot; with nothing selected it is a no-op.
C23_MirrorToggleFlipsSelectedOnly ==
    [][(RunKeyM /\ ~is_locked) =>
          IF selected_point_index = None
          THEN UNCHANGED <<control_points, selected_point_index, undo_stack, redo_stack>>
          ELSE /\ selected_point_index[1] < Len(control_points)
               /\ Len(control_points') = Len(control_points)
               /\ \A k \in 1..Len(control_points) :
                     control_points'[k] =
                        IF k = selected_point_index[1] + 1
                        THEN [control_points[k] EXCEPT !.mirrored = ~control_points[k].mirrored]
                        ELSE control_points[k]
               /\ selected_point_index' = selected_point_index
               /\ Len(undo_stack') = Len(undo_stack) + 1
               /\ Last(undo_stack') = control_points']_vars

----------------------------------------------------------------------------
(* Canvas._split_curve_segment at t = 0.5 as a function of one segment.    *)

\* a point at grid (x, y) with the given tangents, in grid units
Shaped(x, y, in_tangent, out_tangent) ==
    [ControlPoint(<<x * FP, y * FP>>) EXCEPT
        !.in_tangent  = <<in_tangent[1] * FP, in_tangent[2] * FP>>,
        !.out_tangent = <<out_tangent[1] * FP, out_tangent[2] * FP>>,
        !.mirrored    = FALSE]

\* segments from grid (510, 510): straight, bent, lopsided and without handles
Segments ==
    {<<Shaped(510, 510, <<-20, 0>>, out_tangent), Shaped(p3[1], p3[2], in_tangent, <<20, 0>>)>> :
        out_tangent \in {<<20, 0>>, <<0, -20>>, <<30, 10>>, <<10, -30>>, <<0, 0>>},
        in_tangent \in {<<-20, 0>>, <<0, 20>>, <<-30, -10>>, <<10, 10>>, <<0, 0>>},
        p3 \in {<<550, 510>>, <<530, 540>>, <<510, 560>>}}

InitSplit ==
    /\ Untouched
    /\ \E points \in Segments :
         obs = [op |-> "segment", points |-> points, halves |-> <<>>]

\* self._split_curve_segment(segment_idx, t) with t = 0.5
SplitAtHalf ==
    /\ obs.op = "segment"
    /\ obs' = [obs EXCEPT !.op = "split",
                          !.halves = split_curve_segment(
                                         [Constructed EXCEPT !.control_points = obs.points],
                                         0, 1, 2).control_points]
    /\ UNCHANGED editor

NextSplit == SplitAtHalf

SpecSplit == InitSplit /\ [][NextSplit]_vars

\* the small distance, in units of the fixed point
Epsilon == 1

\* the point of segment i of a curve at t = num / den
PointAt(points, i, num, den) ==
    LET g == SegmentGeometry(points, i)
    IN  cubic_bezier(g.p0, g.p1, g.p2, g.p3, num, den)

\* two positions no more than Epsilon apart
Close(a, b) == Length2(a, b) <= Epsilon * Epsilon

\* C24 as stated: after a split at t = 0.5 each of the two sub-curves,
\* evaluated at its own midpoint t = 0.5, is within a small epsilon of the
\* original curve's point at t = 0.5.
C24_SubCurveMidpointsAtOriginalMiddle ==
    obs.op = "split" =>
        /\ Close(PointAt(obs.halves, 0, 1, 2), PointAt(obs.points, 0, 1, 2))
        /\ Close(PointAt(obs.halves, 1, 1, 2), PointAt(obs.points, 0, 1, 2))

\* C24, amended: after a split at t = 0.5 the two sub-curves meet in the
\* original curve's point at t = 0.5: the first sub-curve at t = 1 and the
\* second at t = 0 are within epsilon of it, and the outer ends stay where the
\* original curve's ends were.
C24_SubCurvesMeetAtOriginalMiddle ==
    obs.op = "split" =>
        /\ Len(obs.halves) = 3
        /\ Close(PointAt(obs.halves, 0, 1, 1), PointAt(obs.points, 0, 1, 2))
        /\ Close(PointAt(obs.halves, 1, 0, 1), PointAt(obs.points, 0, 1, 2))
        /\ PointAt(obs.halves, 0, 0, 1) = PointAt(obs.points, 0, 0, 1)
        /\ PointAt(obs.halves, 1, 1, 1) = PointAt(obs.points, 0, 1, 1)

\* a bent segment was split, and the midpoint of its first sub-curve is off
\* the original curve's middle
C24_BentSegmentSplit ==
    /\ obs.op = "split"
    /\ obs.points[1].out_tangent = <<0, -(20 * FP)>>
    /\ obs.points[2].pos = <<530 * FP, 540 * FP>>
    /\ obs.halves[2].pos = PointAt(obs.points, 0, 1, 2)
    /\ ~Close(PointAt(obs.halves, 0, 1, 2), PointAt(obs.points, 0, 1, 2))

----------------------------------------------------------------------------
(* CurveModel with its ControlPoint objects told apart.  Every object has  *)
(* an address, 1, 2, ... in the order of construction; heap[a] is the      *)
(* value of the object at address a; control_points and the snapshots on   *)
(* undo_stack and redo_stack are lists of addresses.  An object that no    *)
(* list holds any more is freed; the addresses are then counted anew in    *)
(* the order of the lists.  The observer holds this object graph m, the    *)
(* editor's own variables stay as constructed.                             *)

\* [pt.clone() for pt in state]: the cloned objects are new, in the order of
\* the list
HeapCloneAll(m, state) ==
    [heap |-> m.heap \o [k \in 1..Len(state) |-> clone(m.heap[state[k]])],
     list |-> [k \in 1..Len(state) |-> Len(m.heap) + k]]

\* the values of the objects of a list
Contents(m, list) == [k \in 1..Len(list) |-> m.heap[list[k]]]

\* CurveModel._save_state_for_undo
heap_save_state_for_undo(m) ==
    LET cloned == HeapCloneAll(m, m.control_points)
    IN  [m EXCEPT !.heap = cloned.heap,
                  !.undo_stack = EvictOldest(Append(m.undo_stack, cloned.list)),
                  !.redo_stack = <<>>]

\* a restore that takes over the objects of the snapshot
heap_restore_shared(m, state) == [m EXCEPT !.control_points = state]

\* CurveModel._restore_state
heap_restore_state(m, state) ==
    LET cloned == HeapCloneAll(m, state)
    IN  [m EXCEPT !.heap = cloned.heap, !.control_points = cloned.list]

\* CurveModel.undo
heap_undo(m) ==
    IF Len(m.undo_stack) > 1
    THEN LET popped == [m EXCEPT !.undo_stack = Front(m.undo_stack),
                                 !.redo_stack = Append(m.redo_stack, Last(m.undo_stack))]
         IN  heap_restore_state(popped, Last(popped.undo_stack))
    ELSE m

\* CurveModel.redo
heap_redo(m) ==
    IF Len(m.redo_stack) > 0
    THEN LET state == Last(m.redo_stack)
         IN  heap_restore_state([m EXCEPT !.redo_stack = Front(m.redo_stack),
                                          !.undo_stack = Append(m.undo_stack, state)],
                                state)
    ELSE m

\* CurveModel.clear_points
heap_clear_points(m) == heap_save_state_for_undo([m EXCEPT !.control_points = <<>>])

\* MainWindow.import_track with a list of new objects of the given values
heap_import_track(m, values) ==
    IF Len(values) > 0
    THEN heap_save_state_for_undo(
             [m EXCEPT !.heap = m.heap \o values,
                       !.control_points = [k \in 1..Len(values) |-> Len(m.heap) + k]])
    ELSE m

\* Canvas._add_point at the end of the list, and the snapshot of
\* mousePressEvent
heap_add_point(m, grid_pos) ==
    heap_save_state_for_undo(
        [m EXCEPT !.heap = Append(m.heap, ControlPoint(grid_pos)),
                  !.control_points = Append(m.control_points, Len(m.heap) + 1)])

\* Canvas.mouseMoveEvent on a dragged point: pt.pos = grid_pos
heap_move_point(m, index, grid_pos) ==
    [m EXCEPT !.heap[m.control_points[index + 1]].pos = grid_pos]

\* MainWindow._toggle_mirror
heap_toggle_mirror(m, index) ==
    heap_save_state_for_undo(
        [m EXCEPT !.heap[m.control_points[index + 1]].mirrored =
                      ~m.heap[m.control_points[index + 1]].mirrored])

\* Canvas._split_curve_segment at t = 0.5: p0 and p1 are changed in place,
\* the new point is a new object; and the snapshot of mousePressEvent
heap_split_curve_segment(m, segment_idx) ==
    LET p0     == m.control_points[segment_idx + 1]
        p1     == m.control_points[segment_idx + 2]
        halves == split_curve_segment(
                      [Constructed EXCEPT !.control_points = <<m.heap[p0], m.heap[p1]>>],
                      0, 1, 2).control_points
    IN  heap_save_state_for_undo(
            [m EXCEPT !.heap = Append([m.heap EXCEPT ![p0] = halves[1], ![p1] = halves[3]],
                                      halves[2]),
                      !.control_points = InsertAt(m.control_points, segment_idx + 1,
                                                  Len(m.heap) + 1)])

\* CurveModel.__init__
HeapConstructed ==
    heap_save_state_for_undo(
        [op |-> "init", heap |-> <<>>, control_points |-> <<>>,
         undo_stack |-> <<>>, redo_stack |-> <<>>])

InitHeap == Untouched /\ obs = HeapConstructed

\* the addresses of the lists of m, in the order of the lists: the live
\* sequence, the snapshots of undo_stack, the snapshots of redo_stack
RECURSIVE Flattened(_)
Flattened(lists) == IF lists = <<>> THEN <<>> ELSE Head(lists) \o Flattened(Tail(lists))

Held(m) == Flattened(<<m.control_points>> \o m.undo_stack \o m.redo_stack)

\* m with the objects that no list holds freed: the object first held at
\* the r-th place gets the address r
Collected(m) ==
    LET held    == Held(m)
        held_at == {held[k] : k \in 1..Len(held)}
        first   == [a \in held_at |-> CHOOSE k \in 1..Len(held) :
                                          held[k] = a /\ \A l \in 1..(k - 1) : held[l] # a]
        moved   == [a \in held_at |-> Cardinality({b \in held_at : first[b] <= first[a]})]
        back    == [r \in 1..Cardinality(held_at) |-> CHOOSE a \in held_at : moved[a] = r]
        renamed(list) == [i \in 1..Len(list) |-> moved[list[i]]]
    IN  [m EXCEPT
            !.heap = [r \in 1..Cardinality(held_at) |-> m.heap[back[r]]],
            !.control_points = renamed(m.control_points),
            !.undo_stack = [k \in 1..Len(m.undo_stack) |-> renamed(m.undo_stack[k])],
            !.redo_stack = [k \in 1..Len(m.redo_stack) |-> renamed(m.redo_stack[k])]]

\* the call has returned with the object graph new
HeapStep(new, op) ==
    /\ Len(new.control_points) <= MaxPoints
    /\ Len(new.undo_stack) + Len(new.redo_stack) <= MaxDeep
    /\ obs' = [Collected(new) EXCEPT !.op = op]
    /\ UNCHANGED editor

\* grid positions of new and of moved points
HeapPlaces == {<<510 * FP, 510 * FP>>, <<550 * FP, 510 * FP>>}

HeapAddPoint ==
    /\ Len(obs.undo_stack) > 0
    /\ \E grid_pos \in HeapPlaces : HeapStep(heap_add_point(obs, grid_pos), "add")

\* _start_drag on a point pushes a snapshot before the moves
HeapStartDrag ==
    /\ Len(obs.control_points) > 0
    /\ HeapStep(heap_save_state_for_undo(obs), "drag")

HeapMovePoint ==
    \E index \in 0..(Len(obs.control_points) - 1) :
        HeapStep(heap_move_point(obs, index, <<530 * FP, 530 * FP>>), "move")

HeapToggleMirror ==
    \E index \in 0..(Len(obs.control_points) - 1) :
        HeapStep(heap_toggle_mirror(obs, index), "mirror")

HeapSplit ==
    \E segment_idx \in 0..(Len(obs.control_points) - 2) :
        HeapStep(heap_split_curve_segment(obs, segment_idx), "split")

HeapUndo ==
    /\ Len(obs.undo_stack) > 0
    /\ HeapStep(heap_undo(obs), "undo")

HeapRedo ==
    /\ Len(obs.undo_stack) > 0
    /\ HeapStep(heap_redo(obs), "redo")

HeapClear ==
    /\ Len(obs.undo_stack) > 0
    /\ HeapStep(heap_clear_points(obs), "clear")

HeapImportTrack ==
    /\ Len(obs.undo_stack) > 0
    /\ \E doc \in {DocOne} : HeapStep(heap_import_track(obs, read_track(doc)), "import")

NextHeap ==
    \/ HeapAddPoint
    \/ HeapStartDrag
    \/ HeapMovePoint
    \/ HeapToggleMirror
    \/ HeapSplit
    \/ HeapUndo
    \/ HeapRedo
    \/ HeapClear
    \/ HeapImportTrack

SpecHeap == InitHeap /\ [][NextHeap]_vars

\* the lists of an object graph: the live sequence and every snapshot
ListsOf(m) == <<m.control_points>> \o m.undo_stack \o m.redo_stack

\* no object is in two lists or twice in one
Unshared(m) ==
    \A k, l \in 1..Len(ListsOf(m)) :
        \A i \in 1..Len(ListsOf(m)[k]), j \in 1..Len(ListsOf(m)[l]) :
            ListsOf(m)[k][i] = ListsOf(m)[l][j] => (k = l /\ i = j)

\* the values held by the snapshots, from the oldest on undo_stack to the
\* one that a redo would restore last
Stored(m) ==
    [k \in 1..Len(m.undo_stack) |-> Contents(m, m.undo_stack[k])]
        \o [k \in 1..Len(m.redo_stack) |->
                Contents(m, m.redo_stack[Len(m.redo_stack) + 1 - k])]

\* a move of a live point, an undo and a redo leave the contents of every
\* stored snapshot as they were, and a call that pushes a snapshot leaves the
\* contents of the snapshots below it as they were
StoredContentsKept ==
    IF obs'.op \in {"move", "undo", "redo"}
    THEN Stored(obs') = Stored(obs)
    ELSE \A k \in 1..Len(obs.undo_stack) :
            k < Len(obs'.undo_stack) =>
               Contents(obs', obs'.undo_stack[k]) = Contents(obs, obs.undo_stack[k])

\* C25: no snapshot on undo_stack or redo_stack shares a ControlPoint object
\* with the live control_points or with another snapshot, and mutating the
\* live points after a snapshot, an undo, a redo or an import never changes
\* the contents of a stored snapshot.
C25_SnapshotsShareNoObject == [](Unshared(obs)) /\ [][StoredContentsKept]_vars

\* a point restored by an undo has been moved while a snapshot waits on the
\* redo stack
C25_MovedAfterUndo ==
    /\ obs.op = "move"
    /\ Len(obs.redo_stack) > 0
    /\ Len(obs.undo_stack) > 1
    /\ Contents(obs, obs.control_points) # Contents(obs, Last(obs.undo_stack))

----------------------------------------------------------------------------
(* Clicks on and next to a curve: on its end points, on its middle, and    *)
(* just off an end point.                                                  *)

\* pixels of the presses: the two ends of a curve, its middle, and a place 15
\* pixels off the first end
ClickPositions == {<<100, 100>>, <<500, 100>>, <<300, 100>>, <<100, 115>>}

Clicking ==
    [h |-> "op", presses |-> ClickPositions, moves |-> {}, docs |-> {DocTwo},
     max_history |-> MaxDeep, max_log |-> MaxPushes]

ClickLeftPress == LeftPressIn(Clicking)

ClickLeftRelease == LeftReleaseIn(Clicking)

ClickImportTrack == ImportTrackIn(Clicking)

NextClick ==
    \/ ClickLeftPress
    \/ ClickLeftRelease
    \/ ClickImportTrack

SpecClick == Init /\ [][NextClick]_vars

\* C26: every split that a left click on the curve triggers gets a parameter
\* t strictly between 0 and 1, never the sample of a segment's end.
C26_SplitParameterStrictlyInside ==
    [][\A p \in ClickPositions :
          (LeftPressAt(Clicking, p) /\ PressKind(cur, EventPos(p)) = "split") =>
              LET closest == find_closest_segment(control_points, EventPos(p))
              IN  0 < closest[3] /\ closest[3] < closest[4]]_vars

----------------------------------------------------------------------------
\* C27: whenever a drag is active its stored point index is a valid index
\* into control_points, also after an undo, a redo, a clear or an import
\* between the press and the next move, so that no drag move indexes out of
\* range.
C27_DragIndexInRange ==
    /\ dragging_object # None => dragging_object[2] < Len(control_points)
    /\ obs.op # "move_error"


----------------------------------------------------------------------------
(* The editor switched between design mode and build mode: every handler   *)
(* runs in either mode, and the observer names the handler that has run    *)
(* also when it returned at its lock guard.                                *)

Locking ==
    [h |-> "op", presses |-> {<<100, 100>>, <<300, 100>>},
     moves |-> MovePositions, docs |-> {DocTwo}, widths |-> {2},
     max_history |-> MaxHistory, max_log |-> MaxPushes]

\* the handler's result new becomes the state, the observer names the handler
Handled(new, op) == Within(Locking, new) /\ Commit(new, ObsReset(op))

LockLeftPress ==
    /\ ~left_button_down
    /\ left_button_down' = TRUE
    /\ \E p \in Locking.presses : Handled(mousePressLeft(cur, EventPos(p)), "press")

LockMiddlePress ==
    /\ UNCHANGED left_button_down
    /\ \E p \in Locking.presses : Handled(mousePressMiddle(cur, EventPos(p)), "middle")

LockMouseMove ==
    /\ UNCHANGED left_button_down
    /\ \E p \in Locking.moves, shift_pressed \in BOOLEAN :
         Handled(mouseMoveEvent(cur, EventPos(p), shift_pressed), "move")

LockLeftRelease ==
    /\ left_button_down
    /\ left_button_down' = FALSE
    /\ Handled(mouseReleaseLeft(cur), "release")

LockKeyC ==
    /\ UNCHANGED left_button_down
    /\ Handled(keyPressEvent(cur, "C"), "clear")

LockKeyM ==
    /\ UNCHANGED left_button_down
    /\ Handled(keyPressEvent(cur, "M"), "mirror")

LockKeyUndo ==
    /\ UNCHANGED left_button_down
    /\ Handled(keyPressEvent(cur, "Undo"), "undo")

LockKeyRedo ==
    /\ UNCHANGED left_button_down
    /\ Handled(keyPressEvent(cur, "Redo"), "redo")

LockSetCurveWidth ==
    /\ UNCHANGED left_button_down
    /\ \E value \in Locking.widths : Handled(set_curve_width(cur, value), "width")

LockImportTrack ==
    /\ UNCHANGED left_button_down
    /\ \E doc \in Locking.docs : Handled(import_track(cur, doc), "import")

NextLock ==
    \/ LockLeftPress
    \/ LockMiddlePress
    \/ LockMouseMove
    \/ LockLeftRelease
    \/ LockKeyC
    \/ LockKeyM
    \/ LockKeyUndo
    \/ LockKeyRedo
    \/ LockSetCurveWidth
    \/ LockImportTrack
    \/ ToggleMode

SpecLock == Init /\ [][NextLock]_vars

\* C28: while the canvas is locked, no left, middle or move mouse event, no
\* C, M, undo or redo key, no move of the width slider and no import changes
\* control_points, selected_point_index, undo_stack, redo_stack, curve_width
\* or grid_blocks (grid_blocks is a function of grid_args).
C28_LockedHandlersChangeNothing ==
    [][(is_locked /\ is_locked') =>
          /\ UNCHANGED <<control_points, selected_point_index, undo_stack,
                         redo_stack, curve_width>>
          /\ grid_args' = grid_args]_vars

\* a locked editor with a curve, a selection, undo history and a drag under
\* way, whose width slider was moved to another width
C28_SliderMovedWhileLocked ==
    /\ is_locked
    /\ obs.op = "width"
    /\ curve_width \notin Locking.widths
    /\ Len(control_points) = 2
    /\ selected_point_index # None
    /\ Len(undo_stack) > 1
    /\ dragging_object # None

\* C29: for every width of the slider's range and every sample point, the
\* cell that contains the sample point, (floor(x), floor(y)), is among the
\* cells stamped for it, so that a curve of 2 or more points never
\* rasterizes to the empty set.
C29_SampleCellIsStamped ==
    obs.op = "stamp" => <<Floor(obs.pt[1]), Floor(obs.pt[2])>> \in obs.cells

----------------------------------------------------------------------------
(* The update check: MainWindow.check_for_updates starts a thread whose    *)
(* worker runs UpdateWorker.run; the worker's signals are queued to the    *)
(* main thread, whose slots on_update_found and on_update_error ask the    *)
(* thread to quit.  The editor stays as constructed; the observer holds    *)
(* the version of the program, the answer to the request, and the          *)
(* positions of the thread, the worker, the queued signal and the dialog.  *)

\* a string as the sequence of its characters
Chars(ch1, ch2, ch3, ch4, ch5) == <<ch1, ch2, ch3, ch4, ch5>>

\* the code point of a character of a version string
Ord(ch) ==
    CASE ch = "." -> 46
      [] ch = "0" -> 48
      [] ch = "1" -> 49
      [] ch = "2" -> 50
      [] ch = "3" -> 51
      [] ch = "9" -> 57
      [] ch = "v" -> 118

\* str.lstrip(ch)
RECURSIVE lstrip(_, _)
lstrip(str, ch) ==
    IF str # <<>> /\ Head(str) = ch THEN lstrip(Tail(str), ch) ELSE str

\* a > b on strings
RECURSIVE StrGreater(_, _)
StrGreater(a, b) ==
    IF a = <<>> THEN FALSE
    ELSE IF b = <<>> THEN TRUE
    ELSE IF Head(a) # Head(b) THEN Ord(Head(a)) > Ord(Head(b))
    ELSE StrGreater(Tail(a), Tail(b))

\* versions of the running program
CurrentVersions == {Chars("1", ".", "0", ".", "0"), Chars("1", ".", "2", ".", "0")}

\* tag names of the latest release
TagNames == {Chars("v", "1", ".", "0", "0"), Chars("v", "1", ".", "2", "0"),
             Chars("v", "1", ".", "3", "0"), Chars("v", "2", ".", "0", "0"),
             Chars("1", ".", "2", ".", "0"), Chars("1", ".", "9", ".", "0")}

\* what the download of the first asset of a release does
Assets == {"none", "download_error", "io_error", "saved"}

\* what requests.get(API_URL) delivers: an exception, an error status, or a
\* JSON object with or without the fields tag_name and body
Responses ==
    {[kind |-> k, has_tag |-> FALSE, tag_name |-> <<>>, has_body |-> FALSE,
      assets |-> "none"] : k \in {"connection_error", "http_error"}}
    \cup {[kind |-> "json", has_tag |-> FALSE, tag_name |-> <<>>,
           has_body |-> b, assets |-> "none"] : b \in BOOLEAN}
    \cup {[kind |-> "json", has_tag |-> TRUE, tag_name |-> tag, has_body |-> b,
           assets |-> a] : tag \in TagNames, b \in BOOLEAN, a \in Assets}

\* UpdateWorker.run: the signal it emits, "none" when it returns without a
\* signal, or the exception that leaves it
run(response, current_version) ==
    IF response.kind \in {"connection_error", "http_error"} THEN "error_occurred"
    ELSE IF ~response.has_tag THEN "KeyError"
    ELSE IF StrGreater(lstrip(response.tag_name, "v"), current_version)
         THEN "update_found"
         ELSE "none"

InitUpdate ==
    /\ Untouched
    /\ \E response \in Responses, current_version \in CurrentVersions :
         obs = [op |-> "init", response |-> response,
                current_version |-> current_version, thread |-> "none",
                worker |-> "none", signal |-> "none", dialog |-> "none",
                quit_requested |-> FALSE, app_quit |-> FALSE]

\* MainWindow.check_for_updates: the thread is started, its started signal
\* is queued for the worker
CheckForUpdates ==
    /\ obs.thread = "none"
    /\ obs' = [obs EXCEPT !.op = "check_for_updates", !.thread = "running",
                          !.worker = "queued"]
    /\ UNCHANGED editor

\* UpdateWorker.run in the thread
WorkerRun ==
    /\ obs.worker = "queued"
    /\ LET outcome == run(obs.response, obs.current_version)
       IN  obs' = [obs EXCEPT
                     !.op = "run",
                     !.worker = IF outcome = "KeyError" THEN "raised" ELSE "returned",
                     !.signal = IF outcome \in {"update_found", "error_occurred"}
                                THEN outcome ELSE "none"]
    /\ UNCHANGED editor

\* MainWindow.on_update_found up to the dialog: show_update_dialog reads
\* tag_name and body and opens the message box, or raises KeyError
OnUpdateFound ==
    /\ obs.signal = "update_found"
    /\ obs' = [obs EXCEPT !.op = "on_update_found", !.signal = "none",
                          !.dialog = IF obs.response.has_body THEN "open"
                                     ELSE "KeyError"]
    /\ UNCHANGED editor

\* the message box answered: download_and_apply_update on Yes, then
\* update_thread.quit()
DialogAnswered ==
    /\ obs.dialog = "open"
    /\ \E yes \in BOOLEAN :
         obs' = [obs EXCEPT !.op = "answered", !.dialog = "closed",
                            !.quit_requested = TRUE,
                            !.app_quit = yes /\ obs.response.assets = "saved"]
    /\ UNCHANGED editor

\* MainWindow.on_update_error
OnUpdateError ==
    /\ obs.signal = "error_occurred"
    /\ obs' = [obs EXCEPT !.op = "on_update_error", !.signal = "none",
                          !.quit_requested = TRUE]
    /\ UNCHANGED editor

\* the thread's event loop leaves after quit(); finished calls deleteLater
ThreadFinished ==
    /\ obs.thread = "running"
    /\ obs.quit_requested
    /\ obs' = [obs EXCEPT !.op = "finished", !.thread = "finished"]
    /\ UNCHANGED editor

NextUpdate ==
    \/ CheckForUpdates
    \/ WorkerRun
    \/ OnUpdateFound
    \/ DialogAnswered
    \/ OnUpdateError
    \/ ThreadFinished

\* both event loops deliver every queued signal, and the dialog is answered
SpecUpdate ==
    /\ InitUpdate
    /\ [][NextUpdate]_vars
    /\ WF_vars(CheckForUpdates)
    /\ WF_vars(WorkerRun)
    /\ WF_vars(OnUpdateFound)
    /\ WF_vars(DialogAnswered)
    /\ WF_vars(OnUpdateError)
    /\ WF_vars(ThreadFinished)

\* C30: once check_for_updates has started the thread, update_thread.quit()
\* is eventually called, whatever the check's outcome: a newer release, no
\* newer release, a network error, or an answer that lacks tag_name or body.
C30_StartedThreadIsAskedToQuit ==
    (obs.thread = "running") ~> obs.quit_requested
============================================================================
